---- MODULE Spec2Model ----
(***************************************************************************)
(* Lambkin front end: tokenizer -> error-tolerant parser -> analyzer.      *)
(* A source text is a sequence of one-character strings.  Locations are    *)
(* records [line, column, offset]; ranges are [start, end].                *)
(***************************************************************************)
EXTENDS Integers, Sequences, FiniteSets, TLC

VARIABLES source, pc, allTokens, tokens, current, statements, diagnostics,
          program, analysis, query, answer, documents, parseCache

vars == <<source, pc, allTokens, tokens, current, statements, diagnostics,
          program, analysis, query, answer, documents, parseCache>>

(***************************************************************************)
(* Bounds of the explored inputs.                                          *)
(***************************************************************************)
\* words of a parser-level source (Spec)
MaxWords == 4

\* words following `let a := ` in an expression-level source (SpecExpr)
MaxExprWords == 5

\* words of an analyzer-level source (SpecSem)
MaxSemWords == 5

\* characters (or `let` keywords) of a lexer-level source (SpecLex)
MaxChars == 4

\* words of a source of repeated declarations (SpecDup)
MaxDupWords == 5

\* nesting depth of the expression of a one-declaration well-formed program
MaxDepth == 2

\* nesting depth of the expressions of a well-formed program of several items
ShallowDepth == 1

\* comments and declarations of a well-formed program (SpecWF)
MaxItems == 3

\* words of a queried source (SpecQuery)
MaxQueryWords == 4

\* lines and columns of the ranges the containment test is compared on
MaxCoordinate == 2

\* versions of a document of a session (SpecServer)
MaxVersion == 3

\* words of a source with lexical errors (SpecErr)
MaxErrWords == 5

(***************************************************************************)
(* Character classes (lexer.ts).                                           *)
(***************************************************************************)
\* the characters the model draws letters and digits from
AlnumChars == {"a", "e", "f", "l", "t", "x", "y", "z", "c", "0"}

\* stands for the one-code-unit Greek lambda glyph
GreekLambda == "lambda"

WhitespaceChars == {" ", "\t", "\r"}

\* the characters JavaScript's \s matches, among those the model draws
RegexSpaceChars == {" ", "\t", "\r", "\n"}

\* an identifier start that accepts letters and digits only
isIdentifierStart_NoOperators(ch) == ch \in AlnumChars \cup {"_"}

isIdentifierStart(ch) == ch \in AlnumChars \cup {"_", "+", "*"}

isIdentifierPart(ch) ==
  IF ch \in RegexSpaceChars \cup {"(", ")", ".", "\\", GreekLambda, ":"}
  THEN FALSE
  ELSE ch \in AlnumChars \cup {"_", "+", "*", "-", "'"}

(***************************************************************************)
(* Lexer.  A lexer state is [pos, line, column]; pos is 0-based, so the    *)
(* character under the cursor is src[pos + 1].                             *)
(***************************************************************************)
LexerInit == [pos |-> 0, line |-> 1, column |-> 0]

Lexer_isAtEnd(src, st) == st.pos >= Len(src)

\* "NUL" stands for '\0'
Lexer_peek(src, st) == IF Lexer_isAtEnd(src, st) THEN "NUL" ELSE src[st.pos + 1]

\* an advance that counts the column on across a line break
Lexer_advance_KeepsColumn(src, st) ==
  LET ch == src[st.pos + 1]
  IN  IF ch = "\n"
      THEN [pos |-> st.pos + 1, line |-> st.line + 1, column |-> st.column + 1]
      ELSE [pos |-> st.pos + 1, line |-> st.line, column |-> st.column + 1]

Lexer_advance(src, st) ==
  LET ch == src[st.pos + 1]
  IN  IF ch = "\n"
      THEN [pos |-> st.pos + 1, line |-> st.line + 1, column |-> 0]
      ELSE [pos |-> st.pos + 1, line |-> st.line, column |-> st.column + 1]

currentLocation(st) == [line |-> st.line, column |-> st.column, offset |-> st.pos]

\* makeToken with an explicit start location
makeToken(type, value, startLoc, st) ==
  [type |-> type, value |-> value,
   range |-> [start |-> startLoc, end |-> currentLocation(st)]]

\* makeToken without a start location: the start is computed from the lexeme
makeTokenNoStart(type, value, st) ==
  [type |-> type, value |-> value,
   range |-> [start |-> [line |-> st.line,
                         column |-> st.column - Len(value),
                         offset |-> st.pos - Len(value)],
              end |-> currentLocation(st)]]

\* the three inner while loops of scanToken; each returns [value, st]
RECURSIVE scanWhitespace(_, _, _)
scanWhitespace(src, value, st) ==
  IF ~Lexer_isAtEnd(src, st) /\ Lexer_peek(src, st) \in WhitespaceChars
  THEN scanWhitespace(src, Append(value, src[st.pos + 1]), Lexer_advance(src, st))
  ELSE [value |-> value, st |-> st]

RECURSIVE scanComment(_, _, _)
scanComment(src, value, st) ==
  IF ~Lexer_isAtEnd(src, st) /\ Lexer_peek(src, st) # "\n"
  THEN scanComment(src, Append(value, src[st.pos + 1]), Lexer_advance(src, st))
  ELSE [value |-> value, st |-> st]

\* a scanner that consumes the identifier but drops its characters after the first
RECURSIVE scanIdentifier_DropsChars(_, _, _)
scanIdentifier_DropsChars(src, value, st) ==
  IF ~Lexer_isAtEnd(src, st) /\ isIdentifierPart(Lexer_peek(src, st))
  THEN scanIdentifier_DropsChars(src, value, Lexer_advance(src, st))
  ELSE [value |-> value, st |-> st]

RECURSIVE scanIdentifier(_, _, _)
scanIdentifier(src, value, st) ==
  IF ~Lexer_isAtEnd(src, st) /\ isIdentifierPart(Lexer_peek(src, st))
  THEN scanIdentifier(src, Append(value, src[st.pos + 1]), Lexer_advance(src, st))
  ELSE [value |-> value, st |-> st]

KeywordLet == <<"l", "e", "t">>

\* scanToken returns [tok, st]
scanToken(src, st0) ==
  LET startLoc == currentLocation(st0)
      ch       == src[st0.pos + 1]
      st1      == Lexer_advance(src, st0)
  IN  IF ch \in WhitespaceChars
      THEN LET r == scanWhitespace(src, <<ch>>, st1)
           IN  [tok |-> makeToken("Whitespace", r.value, startLoc, r.st), st |-> r.st]
      ELSE IF ch = "\n"
      THEN [tok |-> makeToken("Newline", <<ch>>, startLoc, st1), st |-> st1]
      ELSE IF ch = "-" /\ Lexer_peek(src, st1) = "-"
      THEN LET st2 == Lexer_advance(src, st1)
               r   == scanComment(src, <<ch, "-">>, st2)
           IN  [tok |-> makeToken("Comment", r.value, startLoc, r.st), st |-> r.st]
      ELSE IF ch = "\\" \/ ch = GreekLambda
      THEN [tok |-> makeToken("Lambda", <<ch>>, startLoc, st1), st |-> st1]
      ELSE IF ch = "."
      THEN [tok |-> makeToken("Dot", <<ch>>, startLoc, st1), st |-> st1]
      ELSE IF ch = ":" /\ Lexer_peek(src, st1) = "="
      THEN LET st2 == Lexer_advance(src, st1)
           IN  [tok |-> makeToken("Assign", <<":", "=">>, startLoc, st2), st |-> st2]
      ELSE IF ch = "("
      THEN [tok |-> makeToken("LParen", <<ch>>, startLoc, st1), st |-> st1]
      ELSE IF ch = ")"
      THEN [tok |-> makeToken("RParen", <<ch>>, startLoc, st1), st |-> st1]
      ELSE IF isIdentifierStart(ch)
      THEN LET r == scanIdentifier(src, <<ch>>, st1)
           IN  IF r.value = KeywordLet
               THEN [tok |-> makeToken("Let", r.value, startLoc, r.st), st |-> r.st]
               ELSE [tok |-> makeToken("Identifier", r.value, startLoc, r.st), st |-> r.st]
      ELSE [tok |-> makeToken("Error", <<ch>>, startLoc, st1), st |-> st1]

RECURSIVE tokenizeLoop(_, _, _)
tokenizeLoop(src, toks, st) ==
  IF ~Lexer_isAtEnd(src, st)
  THEN LET r == scanToken(src, st)
       IN  tokenizeLoop(src, Append(toks, r.tok), r.st)
  ELSE Append(toks, makeTokenNoStart("EOF", <<>>, st))

tokenize(src) == tokenizeLoop(src, <<>>, LexerInit)

(***************************************************************************)
(* Parser (parser.ts).  `toks` is the parser's token list (whitespace and  *)
(* newlines filtered out), `cur` the 0-based cursor this.current.  Every   *)
(* parse function returns [node, cur, diags]: the node (NullNode for       *)
(* null), the cursor after it, and the diagnostics it added, in order.     *)
(***************************************************************************)
SeverityError == 1

SeverityWarning == 2

NullNode == [type |-> "Null"]

\* what tokens[-1] evaluates to; it has no range and no value, so using it
\* the way the code does (token.range) is an evaluation error, as in the code
UndefinedToken == [type |-> "undefined"]

StartOfFile == [line |-> 1, column |-> 0, offset |-> 0]

Msg(text) == [text |-> text, arg |-> <<>>]

mkDiagnostic(range, message, severity) ==
  [range |-> range, message |-> message, severity |-> severity]

\* a previousRange that answers with the range of the token under the cursor
previousRange_Current(toks, cur) ==
  IF cur + 1 <= Len(toks) THEN toks[cur + 1].range
  ELSE [start |-> StartOfFile, end |-> StartOfFile]

previousRange(toks, cur) ==
  IF cur > 0 THEN toks[cur].range
  ELSE [start |-> StartOfFile, end |-> StartOfFile]

Parser_peek(toks, cur) ==
  IF cur + 1 <= Len(toks) THEN toks[cur + 1]
  ELSE [type |-> "EOF", value |-> <<>>, range |-> previousRange(toks, cur)]

Parser_isAtEnd(toks, cur) == Parser_peek(toks, cur).type = "EOF"

check(toks, cur, type) == Parser_peek(toks, cur).type = type

\* advance returns [tok, cur]
Parser_advance(toks, cur) ==
  LET c == IF ~Parser_isAtEnd(toks, cur) THEN cur + 1 ELSE cur
  IN  [tok |-> IF c >= 1 THEN toks[c] ELSE UndefinedToken, cur |-> c]

currentRange(toks, cur) == Parser_peek(toks, cur).range

makeErrorNode(message, range, partial) ==
  [type |-> "Error", message |-> message, range |-> range, partial |-> partial]

\* the Application node built by one iteration of the application loop
mkApplication(left, right) ==
  [type |-> "Application", left |-> left, right |-> right,
   range |-> [start |-> left.range.start, end |-> right.range.end]]

RECURSIVE parseExpression(_, _)
RECURSIVE parseExpressionLoop(_, _, _, _)
RECURSIVE parseExpressionLoop_RightNested(_, _, _, _)
RECURSIVE loopIteration(_, _, _, _)
RECURSIVE loopIteration_RightNested(_, _, _, _)
RECURSIVE parseAtom(_, _)
RECURSIVE parseAbstraction(_, _)
RECURSIVE parseParenthesized(_, _)

\* the application loop of parseExpression: `while (true) { ... }`; r is the
\* atom parsed by this iteration
loopIteration(toks, left, diags, r) ==
  IF r.node.type = "Null"
  THEN [node |-> left, cur |-> r.cur, diags |-> diags \o r.diags]
  ELSE parseExpressionLoop(toks, mkApplication(left, r.node), r.cur, diags \o r.diags)

\* an application loop that nests to the right: a1 (a2 (... an))
rightNested(left, diags, rest) ==
  [node |-> mkApplication(left, rest.node), cur |-> rest.cur,
   diags |-> diags \o rest.diags]

loopIteration_RightNested(toks, left, diags, r) ==
  IF r.node.type = "Null"
  THEN [node |-> left, cur |-> r.cur, diags |-> diags \o r.diags]
  ELSE rightNested(left, diags,
                   parseExpressionLoop_RightNested(toks, r.node, r.cur, r.diags))

parseExpressionLoop_RightNested(toks, left, cur, diags) ==
  loopIteration_RightNested(toks, left, diags, parseAtom(toks, cur))

parseExpressionLoop(toks, left, cur, diags) ==
  loopIteration(toks, left, diags, parseAtom(toks, cur))

\* parseExpression after its first atom l
RECURSIVE expressionFrom(_, _)
expressionFrom(toks, l) ==
  IF l.node.type = "Null"
  THEN [node |-> NullNode, cur |-> l.cur, diags |-> l.diags]
  ELSE parseExpressionLoop(toks, l.node, l.cur, l.diags)

parseExpression(toks, cur) == expressionFrom(toks, parseAtom(toks, cur))

\* the Variable case of parseAtom; a is the advance over the identifier
variableAtom(a) ==
  [node |-> [type |-> "Variable", name |-> a.tok.value, range |-> a.tok.range],
   cur |-> a.cur, diags |-> <<>>]

\* an atom parser that takes an error token for a variable
parseAtom_AcceptsError(toks, cur) ==
  IF check(toks, cur, "Lambda") THEN parseAbstraction(toks, cur)
  ELSE IF check(toks, cur, "LParen") THEN parseParenthesized(toks, cur)
  ELSE IF check(toks, cur, "Identifier") \/ check(toks, cur, "Error")
  THEN variableAtom(Parser_advance(toks, cur))
  ELSE [node |-> NullNode, cur |-> cur, diags |-> <<>>]

parseAtom(toks, cur) ==
  IF check(toks, cur, "Lambda") THEN parseAbstraction(toks, cur)
  ELSE IF check(toks, cur, "LParen") THEN parseParenthesized(toks, cur)
  ELSE IF check(toks, cur, "Identifier") THEN variableAtom(Parser_advance(toks, cur))
  ELSE [node |-> NullNode, cur |-> cur, diags |-> <<>>]

\* a body parser that stops after one atom
parseBody_OneAtom(toks, cur) == parseAtom(toks, cur)

\* the body of a well-formed abstraction: `const body = this.parseExpression()`
parseBody(toks, cur) == parseExpression(toks, cur)

\* an Abstraction node whose range is that of its body
mkAbstraction_BodyOnly(startRange, paramTok, body) ==
  [type |-> "Abstraction", parameter |-> paramTok.value,
   parameterRange |-> paramTok.range, body |-> body, range |-> body.range]

mkAbstraction(startRange, paramTok, body) ==
  [type |-> "Abstraction", parameter |-> paramTok.value,
   parameterRange |-> paramTok.range, body |-> body,
   range |-> [start |-> startRange.start, end |-> body.range.end]]

\* parseAbstraction, parameter missing; b is the salvaged body
abstractionNoParameter(startRange, d, b) ==
  [node |-> makeErrorNode(
              Msg("Expected parameter after \"\\\""),
              [start |-> startRange.start,
               end |-> IF b.node.type # "Null" THEN b.node.range.end
                       ELSE startRange.end],
              b.node),
   cur |-> b.cur, diags |-> <<d>> \o b.diags]

\* parseAbstraction, `.` missing, that fails whether or not a body follows
abstractionNoDot_HardFailure(startRange, paramTok, d, b) ==
  [node |-> makeErrorNode(
              Msg("Expected \".\" after parameter"),
              [start |-> startRange.start, end |-> paramTok.range.end],
              NullNode),
   cur |-> b.cur, diags |-> <<d>> \o b.diags]

\* parseAbstraction, `.` missing; b is the body parsed anyway
abstractionNoDot(startRange, paramTok, d, b) ==
  IF b.node.type # "Null"
  THEN [node |-> mkAbstraction(startRange, paramTok, b.node),
        cur |-> b.cur, diags |-> <<d>> \o b.diags]
  ELSE [node |-> makeErrorNode(
                   Msg("Expected \".\" after parameter"),
                   [start |-> startRange.start, end |-> paramTok.range.end],
                   NullNode),
        cur |-> b.cur, diags |-> <<d>> \o b.diags]

\* parseAbstraction after `\x.` that reports nothing for a missing body
abstractionBody_Silent(toks, startRange, paramTok, b) ==
  IF b.node.type = "Null"
  THEN [node |-> makeErrorNode(
                   Msg("Expected expression in lambda body"),
                   [start |-> startRange.start,
                    end |-> previousRange(toks, b.cur).end],
                   NullNode),
        cur |-> b.cur, diags |-> b.diags]
  ELSE [node |-> mkAbstraction(startRange, paramTok, b.node),
        cur |-> b.cur, diags |-> b.diags]

\* parseAbstraction after `\x.`; b is the body
abstractionBody(toks, startRange, paramTok, b) ==
  IF b.node.type = "Null"
  THEN [node |-> makeErrorNode(
                   Msg("Expected expression in lambda body"),
                   [start |-> startRange.start,
                    end |-> previousRange(toks, b.cur).end],
                   NullNode),
        cur |-> b.cur,
        diags |-> b.diags \o
                  <<mkDiagnostic(currentRange(toks, b.cur),
                                 Msg("Expected expression in lambda body"),
                                 SeverityError)>>]
  ELSE [node |-> mkAbstraction(startRange, paramTok, b.node),
        cur |-> b.cur, diags |-> b.diags]

parseAbstraction(toks, cur) ==
  LET lam == Parser_advance(toks, cur)
      par == Parser_advance(toks, lam.cur)
      dot == Parser_advance(toks, par.cur)
  IN  IF ~check(toks, lam.cur, "Identifier")
      THEN abstractionNoParameter(
             lam.tok.range,
             mkDiagnostic(currentRange(toks, lam.cur),
                          Msg("Expected parameter after \"\\\""), SeverityError),
             parseExpression(toks, lam.cur))
      ELSE IF ~check(toks, par.cur, "Dot")
      THEN abstractionNoDot(
             lam.tok.range, par.tok,
             mkDiagnostic(currentRange(toks, par.cur),
                          Msg("Expected \".\" after parameter"), SeverityError),
             parseExpression(toks, par.cur))
      ELSE abstractionBody(toks, lam.tok.range, par.tok, parseBody(toks, dot.cur))

\* parseParenthesized that gives up the inner expression of an unclosed `(`
parenthesizedInner_Discards(toks, startRange, e) ==
  LET close == Parser_advance(toks, e.cur)
      d == mkDiagnostic(startRange, Msg("Expected expression after \"(\""),
                        SeverityError)
  IN  IF e.node.type = "Null"
      THEN IF check(toks, e.cur, "RParen")
           THEN [node |-> makeErrorNode(Msg("Empty parentheses"),
                                        [start |-> startRange.start,
                                         end |-> close.tok.range.end],
                                        NullNode),
                 cur |-> close.cur, diags |-> e.diags \o <<d>>]
           ELSE [node |-> makeErrorNode(Msg("Expected expression after \"(\""),
                                        startRange, NullNode),
                 cur |-> e.cur, diags |-> e.diags \o <<d>>]
      ELSE IF ~check(toks, e.cur, "RParen")
      THEN [node |-> makeErrorNode(Msg("Expected closing \")\""),
                                   [start |-> startRange.start,
                                    end |-> e.node.range.end],
                                   e.node),
            cur |-> e.cur,
            diags |-> e.diags \o
                      <<mkDiagnostic([start |-> e.node.range.end,
                                      end |-> e.node.range.end],
                                     Msg("Expected closing \")\""), SeverityError)>>]
      ELSE [node |-> [e.node EXCEPT !.range = [start |-> startRange.start,
                                               end |-> close.tok.range.end]],
            cur |-> close.cur, diags |-> e.diags]

\* parseParenthesized after `(`; e is the inner expression
parenthesizedInner(toks, startRange, e) ==
  LET close == Parser_advance(toks, e.cur)
  IN  IF e.node.type = "Null"
      THEN LET d == mkDiagnostic(startRange, Msg("Expected expression after \"(\""),
                                 SeverityError)
           IN  IF check(toks, e.cur, "RParen")
               THEN [node |-> makeErrorNode(
                                Msg("Empty parentheses"),
                                [start |-> startRange.start,
                                 end |-> close.tok.range.end],
                                NullNode),
                     cur |-> close.cur, diags |-> e.diags \o <<d>>]
               ELSE [node |-> makeErrorNode(Msg("Expected expression after \"(\""),
                                            startRange, NullNode),
                     cur |-> e.cur, diags |-> e.diags \o <<d>>]
      ELSE IF ~check(toks, e.cur, "RParen")
      THEN [node |-> [e.node EXCEPT !.range = [start |-> startRange.start,
                                               end |-> e.node.range.end]],
            cur |-> e.cur,
            diags |-> e.diags \o
                      <<mkDiagnostic([start |-> e.node.range.end,
                                      end |-> e.node.range.end],
                                     Msg("Expected closing \")\""), SeverityError)>>]
      ELSE [node |-> [e.node EXCEPT !.range = [start |-> startRange.start,
                                               end |-> close.tok.range.end]],
            cur |-> close.cur, diags |-> e.diags]

parseParenthesized(toks, cur) ==
  parenthesizedInner(toks, Parser_advance(toks, cur).tok.range,
                     parseExpression(toks, Parser_advance(toks, cur).cur))

\* parseLetDeclaration after `let name :=`; e is the bound expression
letExpression(toks, startRange, nameTok, e) ==
  IF e.node.type = "Null"
  THEN [node |-> makeErrorNode(
                   Msg("Expected expression after \":=\""),
                   [start |-> startRange.start,
                    end |-> previousRange(toks, e.cur).end],
                   NullNode),
        cur |-> e.cur,
        diags |-> e.diags \o
                  <<mkDiagnostic(currentRange(toks, e.cur),
                                 Msg("Expected expression after \":=\""),
                                 SeverityError)>>]
  ELSE [node |-> [type |-> "LetDeclaration", name |-> nameTok.value,
                  nameRange |-> nameTok.range, expression |-> e.node,
                  range |-> [start |-> startRange.start, end |-> e.node.range.end]],
        cur |-> e.cur, diags |-> e.diags]

parseLetDeclaration(toks, cur) ==
  LET letTok  == Parser_advance(toks, cur)
      nameTok == Parser_advance(toks, letTok.cur)
      asg     == Parser_advance(toks, nameTok.cur)
  IN  IF ~check(toks, letTok.cur, "Identifier")
      THEN [node |-> makeErrorNode(Msg("Expected identifier after \"let\""),
                                   letTok.tok.range, NullNode),
            cur |-> letTok.cur,
            diags |-> <<mkDiagnostic(currentRange(toks, letTok.cur),
                                     Msg("Expected identifier after \"let\""),
                                     SeverityError)>>]
      ELSE IF ~check(toks, nameTok.cur, "Assign")
      THEN [node |-> makeErrorNode(Msg("Expected \":=\" after identifier"),
                                   [start |-> letTok.tok.range.start,
                                    end |-> nameTok.tok.range.end],
                                   NullNode),
            cur |-> nameTok.cur,
            diags |-> <<mkDiagnostic(currentRange(toks, nameTok.cur),
                                     Msg("Expected \":=\" after identifier"),
                                     SeverityError)>>]
      ELSE letExpression(toks, letTok.tok.range, nameTok.tok,
                         parseExpression(toks, asg.cur))

\* the Comment statement made of the comment token advanced over
commentStatement(c) ==
  [node |-> [type |-> "Comment", text |-> c.tok.value, range |-> c.tok.range],
   cur |-> c.cur, diags |-> <<>>]

\* a recovery branch that wraps the token in an Error statement without
\* reporting it
unexpectedToken_Silent(t) ==
  IF t.tok.type # "EOF"
  THEN [node |-> [type |-> "Error",
                  message |-> [text |-> "Unexpected token", arg |-> t.tok.value],
                  range |-> t.tok.range, partial |-> NullNode],
        cur |-> t.cur, diags |-> <<>>]
  ELSE [node |-> NullNode, cur |-> t.cur, diags |-> <<>>]

\* the recovery branch of parseStatement; t is the advance over the token
unexpectedToken(t) ==
  IF t.tok.type # "EOF"
  THEN [node |-> [type |-> "Error",
                  message |-> [text |-> "Unexpected token", arg |-> t.tok.value],
                  range |-> t.tok.range, partial |-> NullNode],
        cur |-> t.cur,
        diags |-> <<mkDiagnostic(t.tok.range,
                                 [text |-> "Unexpected token", arg |-> t.tok.value],
                                 SeverityError)>>]
  ELSE [node |-> NullNode, cur |-> t.cur, diags |-> <<>>]

\* a statement parser whose recovery reports the unexpected token without
\* consuming it
parseStatement_Stalls(toks, cur) ==
  IF check(toks, cur, "Comment") THEN commentStatement(Parser_advance(toks, cur))
  ELSE IF check(toks, cur, "Let") THEN parseLetDeclaration(toks, cur)
  ELSE IF ~Parser_isAtEnd(toks, cur)
  THEN unexpectedToken([tok |-> Parser_peek(toks, cur), cur |-> cur])
  ELSE [node |-> NullNode, cur |-> cur, diags |-> <<>>]

parseStatement(toks, cur) ==
  IF check(toks, cur, "Comment") THEN commentStatement(Parser_advance(toks, cur))
  ELSE IF check(toks, cur, "Let") THEN parseLetDeclaration(toks, cur)
  ELSE IF ~Parser_isAtEnd(toks, cur) THEN unexpectedToken(Parser_advance(toks, cur))
  ELSE [node |-> NullNode, cur |-> cur, diags |-> <<>>]

\* the filter of Parser.parse: comments stay in the parser's token list
parserTokens(all) ==
  SelectSeq(all, LAMBDA t : t.type # "Whitespace" /\ t.type # "Newline")

\* the Program node built at the end of Parser.parse
mkProgram(toks, stmts) ==
  [type |-> "Program", statements |-> stmts,
   range |-> [start |-> StartOfFile,
              end |-> IF Len(toks) > 0 THEN toks[Len(toks)].range.end
                      ELSE StartOfFile]]

\* the statement list after one more statement r
pushStatement(stmts, r) ==
  IF r.node.type # "Null" THEN Append(stmts, r.node) ELSE stmts

\* parseProgram as a function: the statement loop run to its end
RECURSIVE parseProgram(_, _, _, _)
RECURSIVE programIteration(_, _, _, _)
programIteration(toks, stmts, diags, r) ==
  parseProgram(toks, r.cur, pushStatement(stmts, r), diags \o r.diags)

parseProgram(toks, cur, stmts, diags) ==
  IF ~Parser_isAtEnd(toks, cur)
  THEN programIteration(toks, stmts, diags, parseStatement(toks, cur))
  ELSE [statements |-> stmts, diagnostics |-> diags]

\* the ParseResult of the parser's token list
parseResult(toks, r) ==
  [program |-> mkProgram(toks, r.statements), diagnostics |-> r.diagnostics]

parseTokens(toks) == parseResult(toks, parseProgram(toks, 0, <<>>, <<>>))

\* parse(source): the ParseResult
parse(src) == parseTokens(parserTokens(tokenize(src)))

(***************************************************************************)
(* Analyzer (semantics.ts).  A Map is modelled as the sequence of its      *)
(* values in insertion order, keyed by their name; setting an existing key *)
(* replaces the value in place.  A Scope chain is the sequence of its      *)
(* binding maps, innermost first.  Macro definitions carry                 *)
(* declarationIndex, parameter definitions carry abstraction.              *)
(***************************************************************************)
UndefinedDef == [kind |-> "undefined"]

MapHas(m, name) == \E i \in 1..Len(m) : m[i].name = name

MapGet(m, name) ==
  IF MapHas(m, name)
  THEN m[CHOOSE i \in 1..Len(m) : m[i].name = name]
  ELSE UndefinedDef

\* a table that keeps every declaration as an entry of its own
MapSet_KeepsBoth(m, def) == Append(m, def)

MapSet(m, def) ==
  IF MapHas(m, def.name)
  THEN [i \in 1..Len(m) |-> IF m[i].name = def.name THEN def ELSE m[i]]
  ELSE Append(m, def)

\* a lookup that walks the scope chain from the outermost scope inwards
RECURSIVE lookupSymbol_OutermostFirst(_, _)
lookupSymbol_OutermostFirst(scope, name) ==
  IF scope = <<>> THEN UndefinedDef
  ELSE LET def == MapGet(scope[Len(scope)], name)
       IN  IF def.kind # "undefined" THEN def
           ELSE lookupSymbol_OutermostFirst(SubSeq(scope, 1, Len(scope) - 1), name)

RECURSIVE lookupSymbol(_, _)
lookupSymbol(scope, name) ==
  IF scope = <<>> THEN UndefinedDef
  ELSE LET def == MapGet(scope[1], name)
       IN  IF def.kind # "undefined" THEN def ELSE lookupSymbol(Tail(scope), name)

\* the Variable case of analyzeExpression: [references, diagnostics]
analyzeVariable(expr, scope) ==
  LET definition == lookupSymbol(scope, expr.name)
  IN  [references |-> <<[name |-> expr.name, range |-> expr.range,
                         definition |-> definition]>>,
       diagnostics |->
         IF definition.kind = "undefined"
         THEN <<mkDiagnostic(expr.range,
                             [text |-> "Unknown identifier", arg |-> expr.name],
                             SeverityError)>>
         ELSE <<>>]

\* the Application case of analyzeExpression: the left operand's references
\* and diagnostics, then the right operand's
bothOperands(l, r) ==
  [references |-> l.references \o r.references,
   diagnostics |-> l.diagnostics \o r.diagnostics]

\* an analyzer that does not look into the partial payload of an Error node
RECURSIVE analyzeExpression_SkipsPartial(_, _)
analyzeExpression_SkipsPartial(expr, scope) ==
  CASE expr.type = "Variable" -> analyzeVariable(expr, scope)
    [] expr.type = "Abstraction" ->
         LET paramDef == [name |-> expr.parameter, range |-> expr.parameterRange,
                          kind |-> "parameter", abstraction |-> expr]
         IN  analyzeExpression_SkipsPartial(expr.body, <<<<paramDef>>>> \o scope)
    [] expr.type = "Application" ->
         bothOperands(analyzeExpression_SkipsPartial(expr.left, scope),
                      analyzeExpression_SkipsPartial(expr.right, scope))
    [] OTHER -> [references |-> <<>>, diagnostics |-> <<>>]

\* analyzeExpression returns [references, diagnostics]: what the call appends
RECURSIVE analyzeExpression(_, _)
analyzeExpression(expr, scope) ==
  CASE expr.type = "Variable" -> analyzeVariable(expr, scope)
    [] expr.type = "Abstraction" ->
         LET paramDef == [name |-> expr.parameter, range |-> expr.parameterRange,
                          kind |-> "parameter", abstraction |-> expr]
         IN  analyzeExpression(expr.body, <<<<paramDef>>>> \o scope)
    [] expr.type = "Application" ->
         bothOperands(analyzeExpression(expr.left, scope),
                      analyzeExpression(expr.right, scope))
    [] expr.type = "Error" ->
         IF expr.partial.type # "Null"
         THEN analyzeExpression(expr.partial, scope)
         ELSE [references |-> <<>>, diagnostics |-> <<>>]
    [] OTHER -> [references |-> <<>>, diagnostics |-> <<>>]

\* first pass of analyze over statements i..Len: returns [macros, diagnostics]
RECURSIVE collectMacros(_, _, _, _)
collectMacros(stmts, i, macros, diags) ==
  IF i > Len(stmts) THEN [macros |-> macros, diagnostics |-> diags]
  ELSE LET stmt == stmts[i]
       IN  IF stmt.type = "LetDeclaration"
           THEN collectMacros(
                  stmts, i + 1,
                  MapSet(macros, [name |-> stmt.name, range |-> stmt.nameRange,
                                  kind |-> "macro", declarationIndex |-> i - 1]),
                  IF MapHas(macros, stmt.name)
                  THEN Append(diags,
                              mkDiagnostic(stmt.nameRange,
                                           [text |-> "Macro is already defined",
                                            arg |-> stmt.name],
                                           SeverityWarning))
                  ELSE diags)
           ELSE collectMacros(stmts, i + 1, macros, diags)

\* a scope that also holds the declaration's own macro
availableMacros_IncludesSelf(macros, index) ==
  SelectSeq(macros, LAMBDA def : "declarationIndex" \in DOMAIN def
                                 /\ def.declarationIndex <= index)

\* the scope of the declaration at 0-based index: the macros declared before it
availableMacros(macros, index) ==
  SelectSeq(macros, LAMBDA def : "declarationIndex" \in DOMAIN def
                                 /\ def.declarationIndex < index)

\* second pass of analyze over statements i..Len: returns [references, diagnostics]
RECURSIVE resolveReferences(_, _, _, _, _)
resolveReferences(stmts, i, macros, refs, diags) ==
  IF i > Len(stmts) THEN [references |-> refs, diagnostics |-> diags]
  ELSE LET stmt == stmts[i]
       IN  IF stmt.type = "LetDeclaration"
           THEN LET r == analyzeExpression(stmt.expression,
                                           <<availableMacros(macros, i - 1)>>)
                IN  resolveReferences(stmts, i + 1, macros,
                                      refs \o r.references, diags \o r.diagnostics)
           ELSE resolveReferences(stmts, i + 1, macros, refs, diags)

analyze(prog) ==
  LET p1 == collectMacros(prog.statements, 1, <<>>, <<>>)
      p2 == resolveReferences(prog.statements, 1, p1.macros, <<>>, p1.diagnostics)
  IN  [macros |-> p1.macros, references |-> p2.references,
       diagnostics |-> p2.diagnostics]

(***************************************************************************)
(* Query layer (semantics.ts): pure functions of (program, line, column).  *)
(* Each runs analyze(program) itself, as the code does.                    *)
(***************************************************************************)
\* a containment test whose end column is inclusive
isPositionInRange_Closed(line, column, range) ==
  IF line < range.start.line \/ line > range.end.line THEN FALSE
  ELSE IF line = range.start.line /\ column < range.start.column THEN FALSE
  ELSE IF line = range.end.line /\ column > range.end.column THEN FALSE
  ELSE TRUE

isPositionInRange(line, column, range) ==
  IF line < range.start.line \/ line > range.end.line THEN FALSE
  ELSE IF line = range.start.line /\ column < range.start.column THEN FALSE
  ELSE IF line = range.end.line /\ column >= range.end.column THEN FALSE
  ELSE TRUE

\* `a || b` on two results that are a parameter or undefined
firstFound(l, r) == IF l.kind # "undefined" THEN l ELSE r

\* findParameterInExpression returns [kind, name, abstraction] or UndefinedDef
RECURSIVE findParameterInExpression(_, _, _)
findParameterInExpression(expr, line, column) ==
  CASE expr.type = "Abstraction" ->
         IF isPositionInRange(line, column, expr.parameterRange)
         THEN [kind |-> "parameter", name |-> expr.parameter, abstraction |-> expr]
         ELSE findParameterInExpression(expr.body, line, column)
    [] expr.type = "Application" ->
         firstFound(findParameterInExpression(expr.left, line, column),
                    findParameterInExpression(expr.right, line, column))
    [] OTHER -> UndefinedDef

\* the statement loop of findParameterAt from statement i on
RECURSIVE findParameterFrom(_, _, _, _)
findParameterFrom(stmts, i, line, column) ==
  IF i > Len(stmts) THEN UndefinedDef
  ELSE IF stmts[i].type = "LetDeclaration"
  THEN firstFound(findParameterInExpression(stmts[i].expression, line, column),
                  findParameterFrom(stmts, i + 1, line, column))
  ELSE findParameterFrom(stmts, i + 1, line, column)

findParameterAt(prog, line, column) ==
  findParameterFrom(prog.statements, 1, line, column)

\* collectParameterReferences returns the ranges it pushes, in order
RECURSIVE collectParameterReferences(_, _, _)
collectParameterReferences(expr, paramName, shadowDepth) ==
  CASE expr.type = "Variable" ->
         IF expr.name = paramName /\ shadowDepth = 0 THEN <<expr.range>> ELSE <<>>
    [] expr.type = "Abstraction" ->
         collectParameterReferences(
           expr.body, paramName,
           IF expr.parameter = paramName THEN shadowDepth + 1 ELSE shadowDepth)
    [] expr.type = "Application" ->
         collectParameterReferences(expr.left, paramName, shadowDepth)
           \o collectParameterReferences(expr.right, paramName, shadowDepth)
    [] OTHER -> <<>>

findParameterReferences(abstraction, paramName) ==
  <<abstraction.parameterRange>>
    \o collectParameterReferences(abstraction.body, paramName, 0)

\* the references whose range contains the position, in order
referencesAt(references, line, column) ==
  SelectSeq(references, LAMBDA ref : isPositionInRange(line, column, ref.range))

\* the declarations whose name range contains the position, in order
declarationsAt(stmts, line, column) ==
  SelectSeq(stmts, LAMBDA stmt : /\ stmt.type = "LetDeclaration"
                                 /\ isPositionInRange(line, column, stmt.nameRange))

\* the tail of findReferencesAt: the macro's range, then every reference of
\* the name
rangesOfName(an, targetName) ==
  (IF MapHas(an.macros, targetName) THEN <<MapGet(an.macros, targetName).range>>
   ELSE <<>>)
    \o [k \in 1..Len(SelectSeq(an.references, LAMBDA ref : ref.name = targetName)) |->
          SelectSeq(an.references, LAMBDA ref : ref.name = targetName)[k].range]

\* findReferencesAt with the analysis and the parameter lookup handed in
referencesOf(an, stmts, param, line, column) ==
  IF referencesAt(an.references, line, column) # <<>>
  THEN rangesOfName(an, referencesAt(an.references, line, column)[1].name)
  ELSE IF declarationsAt(stmts, line, column) # <<>>
  THEN rangesOfName(an, declarationsAt(stmts, line, column)[1].name)
  ELSE IF param.kind # "undefined"
  THEN findParameterReferences(param.abstraction, param.name)
  ELSE <<>>

findReferencesAt(prog, line, column) ==
  referencesOf(analyze(prog), prog.statements,
               findParameterAt(prog, line, column), line, column)

\* findDefinitionAt with the analysis handed in
definitionOf(an, stmts, line, column) ==
  IF referencesAt(an.references, line, column) # <<>>
  THEN referencesAt(an.references, line, column)[1].definition
  ELSE IF declarationsAt(stmts, line, column) # <<>>
  THEN MapGet(an.macros, declarationsAt(stmts, line, column)[1].name)
  ELSE UndefinedDef

findDefinitionAt(prog, line, column) ==
  definitionOf(analyze(prog), prog.statements, line, column)

RECURSIVE collectEnclosingParams(_, _, _)
collectEnclosingParams(expr, line, column) ==
  IF ~isPositionInRange(line, column, expr.range) THEN <<>>
  ELSE CASE expr.type = "Abstraction" ->
              <<[name |-> expr.parameter, range |-> expr.parameterRange,
                 kind |-> "parameter", abstraction |-> expr]>>
                \o collectEnclosingParams(expr.body, line, column)
         [] expr.type = "Application" ->
              collectEnclosingParams(expr.left, line, column)
                \o collectEnclosingParams(expr.right, line, column)
         [] OTHER -> <<>>

\* the statement loop of findEnclosingParameters from statement i on
RECURSIVE enclosingParametersFrom(_, _, _, _)
enclosingParametersFrom(stmts, i, line, column) ==
  IF i > Len(stmts) THEN <<>>
  ELSE (IF /\ stmts[i].type = "LetDeclaration"
           /\ isPositionInRange(line, column, stmts[i].range)
        THEN collectEnclosingParams(stmts[i].expression, line, column)
        ELSE <<>>) \o enclosingParametersFrom(stmts, i + 1, line, column)

findEnclosingParameters(prog, line, column) ==
  enclosingParametersFrom(prog.statements, 1, line, column)

getCompletions(prog, line, column) ==
  analyze(prog).macros \o findEnclosingParameters(prog, line, column)

\* getHoverInfo with the definition and the parameter lookups handed in
hoverOf(def, param) ==
  IF def.kind # "undefined"
  THEN [name |-> def.name, kind |-> def.kind, range |-> def.range]
  ELSE IF param.kind # "undefined"
  THEN [name |-> param.name, kind |-> "parameter",
        range |-> param.abstraction.parameterRange]
  ELSE UndefinedDef

getHoverInfo(prog, line, column) ==
  hoverOf(findDefinitionAt(prog, line, column), findParameterAt(prog, line, column))

(***************************************************************************)
(* Language server session (server.ts).  documents is the document manager *)
(* of the protocol library: it holds the open documents and raises         *)
(* onDidChangeContent when a document is opened or changed.  parseCache is *)
(* the server's Map from uri to { version, result }.  A map is a function  *)
(* on Uris whose value is Absent for a key it does not have.               *)
(***************************************************************************)
\* range conversion of the handlers: 0-based lines
lspRange(range) ==
  [start |-> [line |-> range.start.line - 1, character |-> range.start.column],
   end |-> [line |-> range.end.line - 1, character |-> range.end.column]]

\* mapSeverity is the identity on the severities the parser produces
mapSeverity(severity) == severity

lspDiagnostics(diags) ==
  [k \in 1..Len(diags) |->
     [range |-> lspRange(diags[k].range), message |-> diags[k].message,
      severity |-> mapSeverity(diags[k].severity), source |-> "lambkin"]]

\* the cache entry validateDocument stores for a document
cacheEntry(doc) ==
  [present |-> TRUE, version |-> doc.version, result |-> parse(doc.text)]

\* the diagnostics validateDocument publishes for a parse result
publishedDiagnostics(uri, result) ==
  [uri |-> uri,
   diagnostics |-> lspDiagnostics(result.diagnostics)
                     \o lspDiagnostics(analyze(result.program).diagnostics)]

\* getParseResult returns [program, parseCache]: the program (NullNode for
\* undefined) and the cache after the call
getParseResult(cache, docs, uri) ==
  IF cache[uri].present
  THEN [program |-> cache[uri].result.program, parseCache |-> cache]
  ELSE IF docs[uri].present
  THEN [program |-> parse(docs[uri].text).program,
        parseCache |-> [cache EXCEPT ![uri] = cacheEntry(docs[uri])]]
  ELSE [program |-> NullNode, parseCache |-> cache]

\* the responses of the handlers for a program and a 0-based position
completionResponse(prog, line, character) ==
  IF prog.type = "Null" THEN <<>>
  ELSE [k \in 1..Len(getCompletions(prog, line + 1, character)) |->
          [label |-> getCompletions(prog, line + 1, character)[k].name,
           detail |-> getCompletions(prog, line + 1, character)[k].kind]]

NullResponse == [kind |-> "null"]

hoverContents(info) ==
  IF info.kind = "undefined" THEN NullResponse
  ELSE [kind |-> "markdown", value |-> [kind |-> info.kind, name |-> info.name]]

hoverResponse(prog, line, character) ==
  IF prog.type = "Null" THEN NullResponse
  ELSE hoverContents(getHoverInfo(prog, line + 1, character))

definitionLocation(uri, def) ==
  IF def.kind = "undefined" THEN NullResponse
  ELSE [uri |-> uri, range |-> lspRange(def.range)]

definitionResponse(uri, prog, line, character) ==
  IF prog.type = "Null" THEN NullResponse
  ELSE definitionLocation(uri, findDefinitionAt(prog, line + 1, character))

referenceLocations(uri, ranges) ==
  [k \in 1..Len(ranges) |-> [uri |-> uri, range |-> lspRange(ranges[k])]]

referencesResponse(uri, prog, line, character) ==
  IF prog.type = "Null" THEN <<>>
  ELSE referenceLocations(uri, findReferencesAt(prog, line + 1, character))

highlights(ranges) ==
  [k \in 1..Len(ranges) |-> [range |-> lspRange(ranges[k]), kind |-> "Read"]]

highlightResponse(prog, line, character) ==
  IF prog.type = "Null" THEN <<>>
  ELSE highlights(findReferencesAt(prog, line + 1, character))

(***************************************************************************)
(* Inputs.  A source is the concatenation of a bounded number of words.    *)
(***************************************************************************)
RECURSIVE Flatten(_)
Flatten(ws) == IF ws = <<>> THEN <<>> ELSE Head(ws) \o Flatten(Tail(ws))

SeqsUpTo(S, n) == UNION {[1..k -> S] : k \in 0..n}

SourcesOver(W, n) == {Flatten(ws) : ws \in SeqsUpTo(W, n)}

\* words of the parser-level inputs: keywords, atoms, delimiters, a comment
\* line, a character the lexer rejects, and a whole declaration head
ParseWords ==
  { <<"l", "e", "t", " ">>, <<"x", " ">>, <<":", "=">>, <<"\\">>, <<".">>,
    <<"(">>, <<")">>, <<"-", "-", "c", "\n">>, <<"?">>,
    <<"l", "e", "t", " ", "x", " ", ":", "=", " ">> }

\* expression-level inputs: what follows the head `let a := `
LetPrefix == <<"l", "e", "t", " ", "a", " ", ":", "=", " ">>

ExprWords ==
  { <<"f", " ">>, <<"x", " ">>, <<"(">>, <<")">>, <<"\\", "x", ".", " ">>, <<"\\">> }

\* analyzer-level inputs: declarations of x and y, uses of x and y, an
\* abstraction over x and a lambda with no parameter
SemWords ==
  { <<"l", "e", "t", " ", "x", " ", ":", "=", " ">>,
    <<"l", "e", "t", " ", "y", " ", ":", "=", " ">>,
    <<"x", " ">>, <<"y", " ">>, <<"\\", "x", ".", " ">>, <<"\\">> }

\* lexer-level inputs: single characters and the keyword
LexWords ==
  { <<" ">>, <<"\n">>, <<"-">>, <<":">>, <<"=">>, <<"x">>, <<"?">>, <<"\\">>,
    <<"l", "e", "t">> }

\* inputs of repeated declarations: declarations of x and y, uses of x, y, z
DupWords ==
  { <<"l", "e", "t", " ", "x", " ", ":", "=", " ">>,
    <<"l", "e", "t", " ", "y", " ", ":", "=", " ">>,
    <<"x", " ">>, <<"y", " ">>, <<"z", " ">> }

NoAnalysis == [macros |-> <<>>, references |-> <<>>, diagnostics |-> <<>>]

\* no query asked yet
NoQuery == [kind |-> "none"]

\* the documents a session can hold
Uris == {"u1", "u2"}

\* what Map.get answers for a key the map does not have
Absent == [present |-> FALSE]

InitRest ==
  /\ pc = "start"
  /\ allTokens = <<>>
  /\ tokens = <<>>
  /\ current = 0
  /\ statements = <<>>
  /\ diagnostics = <<>>
  /\ program = NullNode
  /\ analysis = NoAnalysis
  /\ query = NoQuery
  /\ answer = <<>>
  /\ documents = [uri \in Uris |-> Absent]
  /\ parseCache = [uri \in Uris |-> Absent]

Init ==
  /\ source \in SourcesOver(ParseWords, MaxWords)
  /\ InitRest

(***************************************************************************)
(* Steps of parse(source) followed by analyze(program).                    *)
(***************************************************************************)
\* Parser.parse up to the call of parseProgram: tokenize and filter
Tokenize ==
  /\ pc = "start"
  /\ allTokens' = tokenize(source)
  /\ tokens' = parserTokens(allTokens')
  /\ current' = 0
  /\ diagnostics' = <<>>
  /\ statements' = <<>>
  /\ pc' = "parseProgram"
  /\ UNCHANGED <<source, program, analysis, query, answer, documents, parseCache>>

\* the effect of the statement r on the parser's fields
StatementParsed(r) ==
  /\ current' = r.cur
  /\ statements' = pushStatement(statements, r)
  /\ diagnostics' = diagnostics \o r.diags

\* one iteration of the statement loop of parseProgram
ParseStatement ==
  /\ pc = "parseProgram"
  /\ ~Parser_isAtEnd(tokens, current)
  /\ StatementParsed(parseStatement(tokens, current))
  /\ UNCHANGED <<source, pc, allTokens, tokens, program, analysis, query, answer,
               documents, parseCache>>

\* the loop exit of parseProgram and the rest of Parser.parse
ParseReturn ==
  /\ pc = "parseProgram"
  /\ Parser_isAtEnd(tokens, current)
  /\ program' = mkProgram(tokens, statements)
  /\ pc' = "parsed"
  /\ UNCHANGED <<source, allTokens, tokens, current, statements, diagnostics, analysis,
               query, answer, documents, parseCache>>

Analyze ==
  /\ pc = "parsed"
  /\ analysis' = analyze(program)
  /\ pc' = "analyzed"
  /\ UNCHANGED <<source, allTokens, tokens, current, statements, diagnostics, program,
               query, answer, documents, parseCache>>

Next == Tokenize \/ ParseStatement \/ ParseReturn \/ Analyze

Spec == Init /\ [][Next]_vars

InitExpr ==
  /\ source \in {LetPrefix \o Flatten(ws) : ws \in SeqsUpTo(ExprWords, MaxExprWords)}
  /\ InitRest

SpecExpr == InitExpr /\ [][Next]_vars

InitSem ==
  /\ source \in SourcesOver(SemWords, MaxSemWords)
  /\ InitRest

SpecSem == InitSem /\ [][Next]_vars

InitLex ==
  /\ source \in SourcesOver(LexWords, MaxChars)
  /\ InitRest

SpecLex == InitLex /\ [][Next]_vars

InitDup ==
  /\ source \in SourcesOver(DupWords, MaxDupWords)
  /\ InitRest

SpecDup == InitDup /\ [][Next]_vars

(***************************************************************************)
(* Helpers of the properties: orders on locations and walks of the tree.   *)
(***************************************************************************)
LocLE(a, b) == a.offset <= b.offset

Lexemes(toks) == Flatten([i \in 1..Len(toks) |-> toks[i].value])

AtomStart == {"Lambda", "LParen", "Identifier"}

\* C2: tokenize(source) spans the whole source: the first token starts at
\* offset 0, each token starts at the offset where the previous one ended, the
\* lexemes concatenated are the source, and the last token, and only the last,
\* is the end-of-input token, with an empty lexeme at offset Len(source).
C2_TokensSpanInput ==
  pc # "start" =>
    LET n == Len(allTokens)
    IN  /\ n >= 1
        /\ allTokens[1].range.start.offset = 0
        /\ \A i \in 1..(n - 1) :
             /\ allTokens[i + 1].range.start.offset = allTokens[i].range.end.offset
             /\ allTokens[i].type # "EOF"
        /\ Lexemes(allTokens) = source
        /\ allTokens[n].type = "EOF"
        /\ allTokens[n].value = <<>>
        /\ allTokens[n].range.start.offset = Len(source)
        /\ allTokens[n].range.end.offset = Len(source)

\* a tokenized source with a comment, a two-character `:=`, a rejected
\* character, and a token after a line break
C2_Witness ==
  /\ pc # "start"
  /\ \E i \in 1..Len(allTokens) : allTokens[i].type = "Comment"
  /\ \E i \in 1..Len(allTokens) :
       allTokens[i].type = "Newline" /\ i + 1 < Len(allTokens)
  /\ Len(allTokens) >= 4

\* C1: parse is total and makes progress.  The cursor stays inside the token
\* list, whose last token is the only end-of-input token; every iteration of
\* the statement loop moves the cursor forward; every atom parsed at any
\* position (one iteration of the application loop) moves it forward, and a
\* refused atom leaves it in place; parse ends with the cursor on the
\* end-of-input token and a Program node whose range end is not before its
\* start.
AtomAdvances(c, r) ==
  /\ r.cur \in c..(Len(tokens) - 1)
  /\ (r.node.type # "Null") <=> (r.cur > c)

C1_CursorInv ==
  pc # "start" =>
    /\ Len(tokens) >= 1
    /\ tokens[Len(tokens)].type = "EOF"
    /\ current \in 0..(Len(tokens) - 1)
    /\ \A c \in 0..(Len(tokens) - 1) :
         AtomAdvances(c, parseAtom(tokens, c))
    /\ pc \in {"parsed", "analyzed"} =>
         /\ tokens[current + 1].type = "EOF"
         /\ program.type = "Program"
         /\ LocLE(program.range.start, program.range.end)
         /\ program = parse(source).program

C1_LoopStep ==
  (pc = "parseProgram" /\ pc' = "parseProgram") =>
     /\ current' > current
     /\ current' <= Len(tokens) - 1

C1_ParseTotal == []C1_CursorInv /\ [][C1_LoopStep]_vars

\* a finished parse of a source that needed recovery, several statements and
\* an application
C1_Witness ==
  /\ pc = "parsed"
  /\ Len(statements) >= 2
  /\ Len(diagnostics) >= 1
  /\ \E i \in 1..Len(statements) :
       /\ statements[i].type = "LetDeclaration"
       /\ statements[i].expression.type = "Application"

(***************************************************************************)
(* Walks of the parsed tree used by the properties below.                  *)
(***************************************************************************)
\* every expression node under e, e first, in source order
RECURSIVE SubExprs(_)
SubExprs(e) ==
  CASE e.type = "Application" -> <<e>> \o SubExprs(e.left) \o SubExprs(e.right)
    [] e.type = "Abstraction" -> <<e>> \o SubExprs(e.body)
    [] e.type = "Error" ->
         IF e.partial.type # "Null" THEN <<e>> \o SubExprs(e.partial) ELSE <<e>>
    [] OTHER -> <<e>>

\* every expression node of the declarations of a statement list
RECURSIVE StmtExprs(_)
StmtExprs(stmts) ==
  IF stmts = <<>> THEN <<>>
  ELSE (IF Head(stmts).type = "LetDeclaration"
        THEN SubExprs(Head(stmts).expression) ELSE <<>>) \o StmtExprs(Tail(stmts))

\* the node was written inside its own pair of parentheses: parseParenthesized
\* moved its start to the `(`
Parenthesized(e) ==
  /\ source[e.range.start.offset + 1] = "("
  /\ e.type = "Application" => e.range.start.offset < e.left.range.start.offset

\* the parser tokens lying inside a range
TokensIn(range) ==
  SelectSeq(tokens, LAMBDA t : /\ range.start.offset <= t.range.start.offset
                               /\ t.range.end.offset <= range.end.offset
                               /\ t.type # "EOF")

\* index of the `)` closing the `(` before position i, 0 when there is none
RECURSIVE MatchParen(_, _, _)
MatchParen(ts, i, depth) ==
  IF i > Len(ts) THEN 0
  ELSE IF ts[i].type = "LParen" THEN MatchParen(ts, i + 1, depth + 1)
  ELSE IF ts[i].type = "RParen"
  THEN (IF depth = 1 THEN i ELSE MatchParen(ts, i + 1, depth - 1))
  ELSE MatchParen(ts, i + 1, depth)

\* the ranges of the atoms a token run is made of: an identifier, a balanced
\* parenthesis group, or a lambda with everything after it
RECURSIVE TopAtoms(_, _, _)
TopAtoms(ts, i, acc) ==
  IF i > Len(ts) THEN [ok |-> TRUE, atoms |-> acc]
  ELSE IF ts[i].type = "Identifier" THEN TopAtoms(ts, i + 1, Append(acc, ts[i].range))
  ELSE IF ts[i].type = "Lambda"
  THEN [ok |-> TRUE,
        atoms |-> Append(acc, [start |-> ts[i].range.start,
                               end |-> ts[Len(ts)].range.end])]
  ELSE IF ts[i].type = "LParen"
  THEN LET k == MatchParen(ts, i + 1, 1)
       IN  IF k = 0 THEN [ok |-> FALSE, atoms |-> acc]
           ELSE TopAtoms(ts, k + 1,
                         Append(acc, [start |-> ts[i].range.start,
                                      end |-> ts[k].range.end]))
  ELSE [ok |-> FALSE, atoms |-> acc]

\* e is the left-nested application of the first n atoms
RECURSIVE LeftNested(_, _, _)
LeftNested(e, atoms, n) ==
  IF n = 1
  THEN /\ e.range = atoms[1]
       /\ e.type = "Application" => Parenthesized(e)
  ELSE /\ e.type = "Application"
       /\ e.range.start = e.left.range.start
       /\ e.right.range = atoms[n]
       /\ LeftNested(e.left, atoms, n - 1)

\* C3: application is left-associative.  The expression bound by a declaration
\* that is a run of n >= 2 atoms is the left-nested application of them, its
\* right operand the last atom and its left operand the tree of the others;
\* and an Application is the right operand of an Application only when the
\* source put it in parentheses.
C3_LeftAssociative ==
  /\ \A i \in 1..Len(statements) :
       statements[i].type = "LetDeclaration" =>
         LET run == TopAtoms(TokensIn(statements[i].expression.range), 1, <<>>)
         IN  (run.ok /\ Len(run.atoms) >= 2) =>
               LeftNested(statements[i].expression, run.atoms, Len(run.atoms))
  /\ LET nodes == StmtExprs(statements)
     IN  \A k \in 1..Len(nodes) :
           (nodes[k].type = "Application" /\ nodes[k].right.type = "Application")
             => Parenthesized(nodes[k].right)

\* `f x y`: a run of three atoms parsed as (f x) y
C3_Witness ==
  \E i \in 1..Len(statements) :
    /\ statements[i].type = "LetDeclaration"
    /\ LET e   == statements[i].expression
           run == TopAtoms(TokensIn(e.range), 1, <<>>)
       IN  /\ run.ok
           /\ Len(run.atoms) = 3
           /\ e.type = "Application"
           /\ e.left.type = "Application"
           /\ e.right.type = "Variable"

\* the first parser token starting at or after a location
NextTokenFrom(loc) ==
  tokens[CHOOSE i \in 1..Len(tokens) :
           /\ tokens[i].range.start.offset >= loc.offset
           /\ \A j \in 1..(i - 1) : tokens[j].range.start.offset < loc.offset]

\* C4: abstraction bodies are maximal.  The token after the body of an
\* Abstraction cannot start an atom, and an Abstraction that is the left
\* operand of an Application was written in parentheses.
C4_BodiesMaximal ==
  LET nodes == StmtExprs(statements)
  IN  \A k \in 1..Len(nodes) :
        /\ nodes[k].type = "Abstraction" =>
             NextTokenFrom(nodes[k].body.range.end).type \notin AtomStart
        /\ (nodes[k].type = "Application" /\ nodes[k].left.type = "Abstraction")
             => source[nodes[k].left.range.start.offset + 1] = "("

\* `\x. f x y`: an unparenthesized Abstraction over the application (f x) y
C4_Witness ==
  LET nodes == StmtExprs(statements)
  IN  \E k \in 1..Len(nodes) :
        /\ nodes[k].type = "Abstraction"
        /\ ~Parenthesized(nodes[k])
        /\ nodes[k].body.type = "Application"
        /\ nodes[k].body.left.type = "Application"
        /\ nodes[k].body.right.type = "Variable"

(***************************************************************************)
(* Walks of the analyzed program used by the properties below.             *)
(***************************************************************************)
\* every Variable under e, in source order, each with the parameters of the
\* Abstractions it lies in, innermost first
RECURSIVE VarOccs(_, _)
VarOccs(e, binders) ==
  CASE e.type = "Variable" ->
         <<[name |-> e.name, range |-> e.range, binders |-> binders]>>
    [] e.type = "Abstraction" ->
         VarOccs(e.body, <<[name |-> e.parameter, range |-> e.parameterRange]>>
                         \o binders)
    [] e.type = "Application" -> VarOccs(e.left, binders) \o VarOccs(e.right, binders)
    [] e.type = "Error" ->
         IF e.partial.type # "Null" THEN VarOccs(e.partial, binders) ELSE <<>>
    [] OTHER -> <<>>

\* the occurrences of the declaration at a 0-based statement index
TagIndex(occs, index) ==
  [k \in 1..Len(occs) |->
     [name |-> occs[k].name, range |-> occs[k].range,
      binders |-> occs[k].binders, index |-> index]]

\* the Variable occurrences of the declarations i..Len of a statement list
RECURSIVE ProgramOccs(_, _)
ProgramOccs(stmts, i) ==
  IF i > Len(stmts) THEN <<>>
  ELSE (IF stmts[i].type = "LetDeclaration"
        THEN TagIndex(VarOccs(stmts[i].expression, <<>>), i - 1)
        ELSE <<>>) \o ProgramOccs(stmts, i + 1)

Occs == ProgramOccs(program.statements, 1)

\* the occurrence lies in the body of an Abstraction binding its name
Bound(o) == \E k \in 1..Len(o.binders) : o.binders[k].name = o.name

InnermostBinder(o) ==
  o.binders[CHOOSE k \in 1..Len(o.binders) :
              /\ o.binders[k].name = o.name
              /\ \A j \in 1..(k - 1) : o.binders[j].name # o.name]

\* the 0-based indices of the declarations of a name
DeclaredAt(name) ==
  {i \in 0..(Len(program.statements) - 1) :
     /\ program.statements[i + 1].type = "LetDeclaration"
     /\ program.statements[i + 1].name = name}

HasRef(o) ==
  \E r \in 1..Len(analysis.references) : analysis.references[r].range = o.range

\* the reference analyze recorded at an occurrence
RefAt(o) ==
  analysis.references[CHOOSE r \in 1..Len(analysis.references) :
                        analysis.references[r].range = o.range]

UnknownIdentifier(name, range) ==
  [range |-> range, message |-> [text |-> "Unknown identifier", arg |-> name],
   severity |-> SeverityError]

InSeq(x, s) == \E k \in 1..Len(s) : s[k] = x

\* C5: declare-before-use.  A Variable of the declaration at index i that
\* analyze resolves to a macro gets a macro whose declarationIndex is below i;
\* a Variable not bound by a parameter that names the declaration itself, or a
\* name declared only in later statements, is recorded with no definition and
\* reported as an unknown identifier at its range.
C5_DeclareBeforeUse ==
  pc = "analyzed" =>
    \A k \in 1..Len(Occs) :
      LET o == Occs[k]
      IN  /\ HasRef(o)
          /\ RefAt(o).definition.kind = "macro" =>
               RefAt(o).definition.declarationIndex < o.index
          /\ ( /\ ~Bound(o)
               /\ \/ o.index \in DeclaredAt(o.name)
                  \/ /\ DeclaredAt(o.name) # {}
                     /\ \A i \in DeclaredAt(o.name) : i > o.index )
             => /\ RefAt(o).definition = UndefinedDef
                /\ InSeq(UnknownIdentifier(o.name, o.range), analysis.diagnostics)

\* `let x := y let y := x y`: a forward reference, a resolved macro, and a
\* reference of a declaration to its own name
C5_Witness ==
  /\ pc = "analyzed"
  /\ \E k \in 1..Len(Occs) :
       /\ RefAt(Occs[k]).definition.kind = "macro"
       /\ RefAt(Occs[k]).definition.declarationIndex < Occs[k].index
  /\ \E k \in 1..Len(Occs) :
       /\ ~Bound(Occs[k])
       /\ Occs[k].index \in DeclaredAt(Occs[k].name)
       /\ RefAt(Occs[k]).definition = UndefinedDef
  /\ \E k \in 1..Len(Occs) :
       /\ ~Bound(Occs[k])
       /\ DeclaredAt(Occs[k].name) # {}
       /\ \A i \in DeclaredAt(Occs[k].name) : i > Occs[k].index
       /\ RefAt(Occs[k]).definition = UndefinedDef

\* C6: a macro is resolved for every declaration textually following it.  A
\* Variable of the declaration at index i that no enclosing parameter binds
\* resolves to a macro whenever a declaration of its name stands at an index
\* below i, also when the name is declared again at index i or later.
C6_ResolvedAfterDeclaration ==
  pc = "analyzed" =>
    \A k \in 1..Len(Occs) :
      LET o == Occs[k]
      IN  (~Bound(o) /\ \E i \in DeclaredAt(o.name) : i < o.index)
            => (HasRef(o) /\ RefAt(o).definition.kind = "macro")

\* C7: shadowing in resolution.  A Variable in the body of Abstractions with
\* its name as parameter resolves to the parameter definition of the innermost
\* of them (kind parameter, range that Abstraction's parameterRange); a
\* Variable under no such Abstraction gets the visible macro of its name, or
\* no definition when there is none.
C7_InnermostParameter ==
  pc = "analyzed" =>
    \A k \in 1..Len(Occs) :
      LET o   == Occs[k]
          vis == {m \in 1..Len(analysis.macros) :
                    /\ analysis.macros[m].name = o.name
                    /\ analysis.macros[m].declarationIndex < o.index}
      IN  /\ HasRef(o)
          /\ Bound(o) =>
               /\ RefAt(o).definition.kind = "parameter"
               /\ RefAt(o).definition.name = o.name
               /\ RefAt(o).definition.range = InnermostBinder(o).range
               /\ RefAt(o).definition.abstraction.parameterRange
                    = InnermostBinder(o).range
          /\ ~Bound(o) =>
               IF vis = {} THEN RefAt(o).definition = UndefinedDef
               ELSE \E m \in vis : RefAt(o).definition = analysis.macros[m]

\* `let x := \x. \x. x`: a Variable under two Abstractions binding its name,
\* resolved to the inner one
C7_Witness ==
  /\ pc = "analyzed"
  /\ \E k \in 1..Len(Occs) :
       /\ Len(Occs[k].binders) >= 2
       /\ Occs[k].binders[1].name = Occs[k].name
       /\ Occs[k].binders[2].name = Occs[k].name
       /\ Occs[k].binders[1].range # Occs[k].binders[2].range
       /\ RefAt(Occs[k]).definition.range = Occs[k].binders[1].range

ErrorsOf(diags) == SelectSeq(diags, LAMBDA d : d.severity = SeverityError)

WarningsOf(diags) == SelectSeq(diags, LAMBDA d : d.severity = SeverityWarning)

Unresolved(refs) == SelectSeq(refs, LAMBDA r : r.definition.kind = "undefined")

\* C8: analyze records one reference for every Variable reachable from a
\* declaration's expression (through Abstraction bodies, both sides of
\* Applications and Error partial payloads), in source order, and its Error
\* diagnostics are one `Unknown identifier`, at the Variable's range, for each
\* reference with no definition, and nothing else.
C8_OneReferencePerVariable ==
  pc = "analyzed" =>
    LET refs       == analysis.references
        errors     == ErrorsOf(analysis.diagnostics)
        unresolved == Unresolved(analysis.references)
    IN  /\ Len(refs) = Len(Occs)
        /\ \A k \in 1..Len(refs) :
             /\ refs[k].name = Occs[k].name
             /\ refs[k].range = Occs[k].range
        /\ Len(errors) = Len(unresolved)
        /\ \A k \in 1..Len(errors) :
             errors[k] = UnknownIdentifier(unresolved[k].name, unresolved[k].range)

\* `let x := \ \x. x y`: the Variables lie in the partial payload of an Error
\* node, one resolved and one not
C8_Witness ==
  /\ pc = "analyzed"
  /\ \E i \in 1..Len(program.statements) :
       /\ program.statements[i].type = "LetDeclaration"
       /\ program.statements[i].expression.type = "Error"
       /\ program.statements[i].expression.partial.type # "Null"
  /\ Len(Unresolved(analysis.references)) >= 1
  /\ Len(Unresolved(analysis.references)) < Len(analysis.references)

\* the Warnings expected of the declarations i..Len: one for each declaration
\* whose name an earlier declaration has
RECURSIVE DuplicateWarnings(_, _)
DuplicateWarnings(stmts, i) ==
  IF i > Len(stmts) THEN <<>>
  ELSE (IF /\ stmts[i].type = "LetDeclaration"
           /\ \E j \in 1..(i - 1) : /\ stmts[j].type = "LetDeclaration"
                                    /\ stmts[j].name = stmts[i].name
        THEN <<[range |-> stmts[i].nameRange,
                message |-> [text |-> "Macro is already defined",
                             arg |-> stmts[i].name],
                severity |-> SeverityWarning]>>
        ELSE <<>>) \o DuplicateWarnings(stmts, i + 1)

DeclaredNames ==
  {program.statements[i].name :
     i \in {j \in 1..Len(program.statements) :
              program.statements[j].type = "LetDeclaration"}}

LastDeclaration(name) ==
  CHOOSE i \in DeclaredAt(name) : \A j \in DeclaredAt(name) : j <= i

\* `let x := y let x := z`
DupExample ==
  <<"l", "e", "t", " ", "x", " ", ":", "=", " ", "y", " ",
    "l", "e", "t", " ", "x", " ", ":", "=", " ", "z", " ">>

\* C9: duplicate macro.  The Warnings of analyze are one for each declaration
\* whose name an earlier declaration has, at that later declaration's name
\* range; the macro table has one entry per declared name, with the range and
\* declarationIndex of the last declaration of the name.  For `let x := y`
\* followed by `let x := z` there is one Warning, on the second x, and the
\* table has one entry.
C9_DuplicateMacro ==
  pc = "analyzed" =>
    /\ WarningsOf(analysis.diagnostics) = DuplicateWarnings(program.statements, 1)
    /\ Len(analysis.macros) = Cardinality(DeclaredNames)
    /\ \A n \in DeclaredNames :
         \E m \in 1..Len(analysis.macros) :
           /\ analysis.macros[m].name = n
           /\ analysis.macros[m].kind = "macro"
           /\ analysis.macros[m].declarationIndex = LastDeclaration(n)
           /\ analysis.macros[m].range
                = program.statements[LastDeclaration(n) + 1].nameRange
    /\ source = DupExample =>
         /\ Len(program.statements) = 2
         /\ Len(WarningsOf(analysis.diagnostics)) = 1
         /\ WarningsOf(analysis.diagnostics)[1].range
              = program.statements[2].nameRange
         /\ Len(analysis.macros) = 1

\* the analysis of `let x := y let x := z`
C9_Witness ==
  /\ pc = "analyzed"
  /\ source = DupExample
  /\ Len(WarningsOf(analysis.diagnostics)) = 1

\* the first piece missing after the `let` under the cursor: 1 the
\* identifier, 2 the `:=`, 3 the expression, 0 none
MissingPiece ==
  IF tokens[current + 2].type # "Identifier" THEN 1
  ELSE IF tokens[current + 3].type # "Assign" THEN 2
  ELSE IF tokens[current + 4].type \notin AtomStart THEN 3
  ELSE 0

MissingMessage ==
  CASE MissingPiece = 1 -> Msg("Expected identifier after \"let\"")
    [] MissingPiece = 2 -> Msg("Expected \":=\" after identifier")
    [] OTHER -> Msg("Expected expression after \":=\"")

\* a statement-loop step at a `let` with a piece missing: one more diagnostic,
\* an Error, and one more statement, an Error node from the start of `let` to
\* the end of the last token consumed
C10_Step ==
  ( /\ pc = "parseProgram"
    /\ pc' = "parseProgram"
    /\ tokens[current + 1].type = "Let"
    /\ MissingPiece # 0 )
  => /\ current' = current + MissingPiece
     /\ Len(diagnostics') = Len(diagnostics) + 1
     /\ SubSeq(diagnostics', 1, Len(diagnostics)) = diagnostics
     /\ diagnostics'[Len(diagnostics')].severity = SeverityError
     /\ diagnostics'[Len(diagnostics')].message = MissingMessage
     /\ Len(statements') = Len(statements) + 1
     /\ SubSeq(statements', 1, Len(statements)) = statements
     /\ statements'[Len(statements')] =
          [type |-> "Error", message |-> MissingMessage,
           range |-> [start |-> tokens[current + 1].range.start,
                      end |-> tokens[current + MissingPiece].range.end],
           partial |-> NullNode]

\* `let x :=`
LetWithoutExpression == <<"l", "e", "t", " ", "x", " ", ":", "=">>

C10_Example ==
  (source = LetWithoutExpression /\ pc \in {"parsed", "analyzed"}) =>
    /\ Len(program.statements) = 1
    /\ program.statements[1].type = "Error"
    /\ Len(ErrorsOf(diagnostics)) >= 1

\* C10: incomplete let-declaration.  When a `let` is not followed by an
\* identifier, then `:=`, then an expression, parseLetDeclaration adds one
\* Error diagnostic for the first missing piece and the statement is one Error
\* node from the start of `let` to the end of the last token consumed; the
\* parse of `let x :=` has one statement, an Error node, and an Error
\* diagnostic.
C10_IncompleteLet == [][C10_Step]_vars /\ []C10_Example

\* the finished parse of `let x :=`
C10_Witness ==
  /\ pc = "parsed"
  /\ source = LetWithoutExpression
  /\ Len(statements) = 1
  /\ statements[1].type = "Error"
  /\ statements[1].message = Msg("Expected expression after \":=\"")

UnexpectedToken(tok) ==
  [text |-> "Unexpected token", arg |-> tok.value]

\* a statement-loop step at a token that is neither a comment, `let` nor the
\* end of input: the token alone is consumed, one Error diagnostic and one
\* Error statement are added, both at the token's range
C11_Step ==
  ( /\ pc = "parseProgram"
    /\ pc' = "parseProgram"
    /\ tokens[current + 1].type \notin {"Comment", "Let", "EOF"} )
  => /\ current' = current + 1
     /\ diagnostics' =
          Append(diagnostics,
                 [range |-> tokens[current + 1].range,
                  message |-> UnexpectedToken(tokens[current + 1]),
                  severity |-> SeverityError])
     /\ statements' =
          Append(statements,
                 [type |-> "Error", message |-> UnexpectedToken(tokens[current + 1]),
                  range |-> tokens[current + 1].range, partial |-> NullNode])

\* the statements and diagnostics of the recovery branch, one per token
UnexpectedOnly ==
  /\ Len(statements) = Len(diagnostics)
  /\ \A i \in 1..Len(statements) :
       /\ statements[i].type = "Error"
       /\ statements[i].message.text = "Unexpected token"
       /\ statements[i].range = tokens[i].range
       /\ diagnostics[i].range = tokens[i].range
       /\ diagnostics[i].severity = SeverityError

\* a source of k tokens none of which can lead a statement gives k Error
\* statements and k diagnostics
C11_Run ==
  ( /\ pc \in {"parsed", "analyzed"}
    /\ \A i \in 1..(Len(tokens) - 1) :
         tokens[i].type \notin {"Comment", "Let"} )
  => /\ Len(statements) = Len(tokens) - 1
     /\ UnexpectedOnly

\* C11: unexpected token at statement level.  A statement-leading token that
\* is neither a comment, `let` nor end-of-input is consumed alone and gives
\* one Error diagnostic `Unexpected token` at its range and one Error
\* statement with that range; k such tokens in a row give k Error statements
\* and k diagnostics, and the statement loop moves on.
C11_UnexpectedToken == [][C11_Step]_vars /\ []C11_Run

\* four tokens in a row that cannot lead a statement, all consumed
C11_Witness ==
  /\ pc = "parsed"
  /\ Len(tokens) = 5
  /\ \A i \in 1..4 : tokens[i].type \notin {"Comment", "Let"}
  /\ Len(statements) = 4
  /\ UnexpectedOnly

(***************************************************************************)
(* Well-formed programs, built from the grammar: identifiers (a name, a    *)
(* numeral, an operator), abstractions, juxtaposition and parentheses;     *)
(* declarations `let f := EXPR` and comment lines.                         *)
(***************************************************************************)
WFIdentifiers == { <<"x", " ">>, <<"0", " ">>, <<"+", " ">> }

\* the expressions one level deeper than those of S
Grow(S) ==
  S \cup {<<"\\", "x", ".", " ">> \o e : e \in S}
    \cup {<<"(">> \o e \o <<")", " ">> : e \in S}
    \cup {a \o b : a \in S, b \in S}

RECURSIVE WFExprs(_)
WFExprs(d) == IF d = 0 THEN WFIdentifiers ELSE Grow(WFExprs(d - 1))

WFDeclaration(e) == <<"l", "e", "t", " ", "f", " ", ":", "=", " ">> \o e \o <<"\n">>

WFComment == <<"-", "-", "c", "\n">>

WFItems(d) == {WFDeclaration(e) : e \in WFExprs(d)} \cup {WFComment}

WFSources ==
  SourcesOver(WFItems(ShallowDepth), MaxItems)
    \cup {WFDeclaration(e) : e \in WFExprs(MaxDepth)}

InitWF ==
  /\ source \in WFSources
  /\ InitRest

SpecWF == InitWF /\ [][Next]_vars

\* the tokens that lead the items of a well-formed program
ItemTokens == SelectSeq(tokens, LAMBDA t : t.type \in {"Comment", "Let"})

\* C12: well-formed input parses cleanly.  The parse of a program made of
\* comments between statements and declarations `let NAME := EXPR`, EXPR built
\* from identifiers (numerals and operators included), abstractions,
\* juxtaposition and balanced parentheses, has no diagnostic, one Comment
\* statement per comment and one LetDeclaration per `let`, in source order,
\* and no Error node.
C12_WellFormedParsesCleanly ==
  pc \in {"parsed", "analyzed"} =>
    /\ diagnostics = <<>>
    /\ Len(statements) = Len(ItemTokens)
    /\ \A i \in 1..Len(statements) :
         /\ ItemTokens[i].type = "Comment" =>
              /\ statements[i].type = "Comment"
              /\ statements[i].text = ItemTokens[i].value
              /\ statements[i].range = ItemTokens[i].range
         /\ ItemTokens[i].type = "Let" =>
              /\ statements[i].type = "LetDeclaration"
              /\ statements[i].range.start = ItemTokens[i].range.start
    /\ \A k \in 1..Len(StmtExprs(statements)) :
         StmtExprs(statements)[k].type # "Error"
    /\ program.statements = statements

\* a comment, then a declaration with a numeral, an operator and a
\* parenthesized operand, then a comment
C12_Witness ==
  /\ pc = "parsed"
  /\ Len(statements) = 3
  /\ statements[1].type = "Comment"
  /\ statements[2].type = "LetDeclaration"
  /\ statements[2].expression.type = "Application"
  /\ statements[2].expression.left.name = <<"+">>
  /\ statements[2].expression.right.name = <<"0">>
  /\ statements[3].type = "Comment"

(***************************************************************************)
(* Queries on an analyzed program: one query at a position of the source.  *)
(***************************************************************************)
\* queried inputs: a declaration on the first line, a declaration of x on a
\* line of its own, abstractions over x and y, a use of x, a bare lambda
QueryWords ==
  { <<"l", "e", "t", " ", "a", " ", ":", "=", " ">>,
    <<"\n", "l", "e", "t", " ", "x", " ", ":", "=", " ">>,
    <<"\\", "x", ".", " ">>, <<"\\", "y", ".", " ">>, <<"x", " ">>, <<"\\">> }

InitQuery ==
  /\ source \in SourcesOver(QueryWords, MaxQueryWords)
  /\ InitRest

\* the lines of the source and the columns of its longest line
QueryLines == 1..allTokens[Len(allTokens)].range.end.line

QueryColumns ==
  0..(CHOOSE m \in 0..Len(source) :
        /\ \A i \in 1..Len(allTokens) : allTokens[i].range.end.column <= m
        /\ \E i \in 1..Len(allTokens) : allTokens[i].range.end.column = m)

Asked(kind, line, column, result) ==
  /\ query' = [kind |-> kind, line |-> line, column |-> column]
  /\ answer' = result
  /\ pc' = "queried"
  /\ UNCHANGED <<source, allTokens, tokens, current, statements, diagnostics,
                 program, analysis, documents, parseCache>>

FindReferencesAt ==
  /\ pc = "analyzed"
  /\ \E line \in QueryLines, column \in QueryColumns :
       Asked("references", line, column, findReferencesAt(program, line, column))

FindDefinitionAt ==
  /\ pc = "analyzed"
  /\ \E line \in QueryLines, column \in QueryColumns :
       Asked("definition", line, column, findDefinitionAt(program, line, column))

GetCompletions ==
  /\ pc = "analyzed"
  /\ \E line \in QueryLines, column \in QueryColumns :
       Asked("completion", line, column, getCompletions(program, line, column))

NextQuery == Next \/ FindReferencesAt \/ FindDefinitionAt \/ GetCompletions

SpecQuery == InitQuery /\ [][NextQuery]_vars

\* (l1, c1) <= (l2, c2) and (l1, c1) < (l2, c2) in lexicographic order
LexLE(l1, c1, l2, c2) == l1 < l2 \/ (l1 = l2 /\ c1 <= c2)

LexLT(l1, c1, l2, c2) == l1 < l2 \/ (l1 = l2 /\ c1 < c2)

\* start <= (line, column) < end
Contains(range, line, column) ==
  /\ LexLE(range.start.line, range.start.column, line, column)
  /\ LexLT(line, column, range.end.line, range.end.column)

\* the position of the query lies in the range
Asks(range) == Contains(range, query.line, query.column)

Coordinates == 1..MaxCoordinate

SmallRanges ==
  {[start |-> [line |-> sl, column |-> sc], end |-> [line |-> el, column |-> ec]] :
     sl \in Coordinates, sc \in Coordinates, el \in Coordinates, ec \in Coordinates}

\* C17: position containment is half-open.  isPositionInRange is true exactly
\* when start <= (line, column) < end in lexicographic order, so an empty
\* range contains no position, no position lies in two adjacent ranges, and no
\* position lies in the ranges of two different tokens of a tokenize result.
C17_HalfOpenContainment ==
  /\ (pc = "start" /\ source = <<>>) =>
       \A r \in SmallRanges : \A line \in 0..(MaxCoordinate + 1) :
         \A column \in 0..(MaxCoordinate + 1) :
           /\ isPositionInRange(line, column, r) <=> Contains(r, line, column)
           /\ r.start = r.end => ~isPositionInRange(line, column, r)
           /\ \A r2 \in SmallRanges :
                r2.start = r.end =>
                  ~(isPositionInRange(line, column, r)
                    /\ isPositionInRange(line, column, r2))
  /\ pc = "queried" =>
       \A i \in 1..Len(allTokens) :
         /\ isPositionInRange(query.line, query.column, allTokens[i].range)
              <=> Asks(allTokens[i].range)
         /\ \A j \in 1..Len(allTokens) :
              ( /\ isPositionInRange(query.line, query.column, allTokens[i].range)
                /\ isPositionInRange(query.line, query.column, allTokens[j].range) )
              => i = j

\* a definition asked at the exclusive end of a reference's range, where the
\* token before the position no longer answers, on the second line
C17_Witness ==
  /\ pc = "queried"
  /\ query.kind = "definition"
  /\ query.line = 2
  /\ answer = UndefinedDef
  /\ \E k \in 1..Len(analysis.references) :
       /\ analysis.references[k].range.end.line = query.line
       /\ analysis.references[k].range.end.column = query.column
       /\ analysis.references[k].definition.kind = "parameter"

\* every expression node of the program, parents before children
ProgramExprs == StmtExprs(program.statements)

\* the ranges of the references analyze binds to the parameter of e
BoundTo(e) ==
  [k \in 1..Len(SelectSeq(analysis.references,
                          LAMBDA ref : /\ ref.definition.kind = "parameter"
                                       /\ ref.definition.range = e.parameterRange)) |->
     SelectSeq(analysis.references,
               LAMBDA ref : /\ ref.definition.kind = "parameter"
                            /\ ref.definition.range = e.parameterRange)[k].range]

\* C13: reference enumeration on a parameter declaration.  findReferencesAt
\* at a position inside the parameterRange of an Abstraction returns that
\* parameterRange followed by the ranges of the Variables of the body that
\* analyze binds to this parameter.
C13_ParameterDeclarationReferences ==
  (pc = "queried" /\ query.kind = "references") =>
    \A k \in 1..Len(ProgramExprs) :
      (ProgramExprs[k].type = "Abstraction" /\ Asks(ProgramExprs[k].parameterRange))
        => answer = <<ProgramExprs[k].parameterRange>> \o BoundTo(ProgramExprs[k])

\* the references whose range holds the position of the query
AskedReferences == SelectSeq(analysis.references, LAMBDA ref : Asks(ref.range))

\* C14: reference enumeration on a parameter use.  findReferencesAt at a
\* position on a Variable that resolves to the parameter of an Abstraction
\* returns only the parameter's declaration and the occurrences bound to it:
\* no same-named Variable of another Abstraction or declaration, no name range
\* of a same-named macro.
C14_ParameterUseReferences ==
  ( /\ pc = "queried"
    /\ query.kind = "references"
    /\ AskedReferences # <<>>
    /\ AskedReferences[1].definition.kind = "parameter" )
  => \A i \in 1..Len(answer) :
       \/ answer[i] = AskedReferences[1].definition.range
       \/ InSeq(answer[i], BoundTo(AskedReferences[1].definition.abstraction))

\* the declarations whose name range holds the position of the query
AskedDeclarations ==
  SelectSeq(program.statements,
            LAMBDA stmt : stmt.type = "LetDeclaration" /\ Asks(stmt.nameRange))

\* C15: definition lookup.  findDefinitionAt at a position inside a
\* reference's range returns that reference's definition; at a position inside
\* the name range of a declaration it returns a macro definition whose range
\* is that name range, also for a name declared more than once; at any other
\* position it returns none.
C15_DefinitionLookup ==
  (pc = "queried" /\ query.kind = "definition") =>
    IF AskedReferences # <<>> THEN answer = AskedReferences[1].definition
    ELSE IF AskedDeclarations # <<>>
    THEN /\ answer.kind = "macro"
         /\ answer.name = AskedDeclarations[1].name
         /\ answer.range = AskedDeclarations[1].nameRange
    ELSE answer = UndefinedDef

\* the Abstractions whose range holds the position of the query, outermost
\* first
EnclosingAbstractions ==
  SelectSeq(ProgramExprs, LAMBDA e : e.type = "Abstraction" /\ Asks(e.range))

\* C16: completion.  getCompletions returns every definition of the macro
\* table followed by the parameters of the Abstractions that lexically enclose
\* the position, outermost first, and no parameter of an Abstraction whose
\* range does not hold the position.
C16_Completion ==
  (pc = "queried" /\ query.kind = "completion") =>
    answer = analysis.macros
               \o [k \in 1..Len(EnclosingAbstractions) |->
                     [name |-> EnclosingAbstractions[k].parameter,
                      range |-> EnclosingAbstractions[k].parameterRange,
                      kind |-> "parameter",
                      abstraction |-> EnclosingAbstractions[k]]]

WellRanged(range) == LocLE(range.start, range.end)

\* the inner range lies inside the outer one
Within(inner, outer) == LocLE(outer.start, inner.start) /\ LocLE(inner.end, outer.end)

\* an expression node's range is well-formed and holds its children's
ExprContainsChildren(e) ==
  /\ WellRanged(e.range)
  /\ e.type = "Abstraction" =>
       /\ Within(e.parameterRange, e.range)
       /\ Within(e.body.range, e.range)
  /\ e.type = "Application" =>
       /\ Within(e.left.range, e.range)
       /\ Within(e.right.range, e.range)
  /\ (e.type = "Error" /\ e.partial.type # "Null") => Within(e.partial.range, e.range)

\* C18: range containment.  In every tree that parse returns, each node's
\* range has start <= end and holds the ranges of its children: Program every
\* statement, a LetDeclaration its nameRange and its expression, an
\* Abstraction its parameterRange and its body, an Application its left and
\* right, an Error node its partial payload.
C18_RangeContainment ==
  pc \in {"parsed", "analyzed"} =>
    /\ WellRanged(program.range)
    /\ \A i \in 1..Len(program.statements) :
         /\ WellRanged(program.statements[i].range)
         /\ Within(program.statements[i].range, program.range)
         /\ program.statements[i].type = "LetDeclaration" =>
              /\ Within(program.statements[i].nameRange, program.statements[i].range)
              /\ Within(program.statements[i].expression.range,
                        program.statements[i].range)
    /\ \A k \in 1..Len(ProgramExprs) : ExprContainsChildren(ProgramExprs[k])

\* `\ ( f x )`: an Error node whose partial payload is a parenthesized
\* Application
C18_Witness ==
  /\ pc = "parsed"
  /\ \E k \in 1..Len(ProgramExprs) :
       /\ ProgramExprs[k].type = "Error"
       /\ ProgramExprs[k].partial.type = "Application"
       /\ Parenthesized(ProgramExprs[k].partial)
       /\ ProgramExprs[k].range.start.offset
            < ProgramExprs[k].partial.range.start.offset

\* the source with every comment replaced by blanks of the same length, so
\* that every other token keeps its place
CommentsRemoved ==
  Flatten([i \in 1..Len(allTokens) |->
             IF allTokens[i].type = "Comment"
             THEN [k \in 1..Len(allTokens[i].value) |-> " "]
             ELSE allTokens[i].value])

CommentTokens == SelectSeq(tokens, LAMBDA t : t.type = "Comment")

CommentStatements == SelectSeq(statements, LAMBDA stmt : stmt.type = "Comment")

OtherStatements == SelectSeq(statements, LAMBDA stmt : stmt.type # "Comment")

SameAsWithout(r) ==
  /\ OtherStatements = r.program.statements
  /\ diagnostics = r.diagnostics

\* C19: a comment is inert for parsing.  Each comment token gives one Comment
\* statement with its text and range, and the other statements and the
\* diagnostics of parse are those of the same input with its comments
\* removed, wherever the comment stands.
C19_CommentInert ==
  pc \in {"parsed", "analyzed"} =>
    /\ Len(CommentStatements) = Len(CommentTokens)
    /\ \A i \in 1..Len(CommentTokens) :
         /\ CommentStatements[i].text = CommentTokens[i].value
         /\ CommentStatements[i].range = CommentTokens[i].range
    /\ SameAsWithout(parse(CommentsRemoved))

(***************************************************************************)
(* A language server session: documents are opened, changed and closed,    *)
(* and queried at a position.  query holds the last request or             *)
(* notification, answer the last message the server sent.                  *)
(***************************************************************************)
\* `let a := \x. x ` and `let x := x `
ServerTexts ==
  { <<"l", "e", "t", " ", "a", " ", ":", "=", " ", "\\", "x", ".", " ", "x", " ">>,
    <<"l", "e", "t", " ", "x", " ", ":", "=", " ", "x", " ">> }

\* 0-based positions of the requests: a declared name and a body occurrence
ServerLines == {0}

ServerCharacters == {4, 13}

InitServer ==
  /\ source = <<>>
  /\ pc = "serving"
  /\ allTokens = <<>>
  /\ tokens = <<>>
  /\ current = 0
  /\ statements = <<>>
  /\ diagnostics = <<>>
  /\ program = NullNode
  /\ analysis = NoAnalysis
  /\ query = NoQuery
  /\ answer = <<>>
  /\ documents = [uri \in Uris |-> Absent]
  /\ parseCache = [uri \in Uris |-> Absent]

\* onDidChangeContent of a document: validateDocument
ContentChanged(uri, doc) ==
  /\ documents' = [documents EXCEPT ![uri] = doc]
  /\ parseCache' = [parseCache EXCEPT ![uri] = cacheEntry(doc)]
  /\ query' = [kind |-> "didChangeContent", uri |-> uri]
  /\ answer' = publishedDiagnostics(uri, parse(doc.text))
  /\ UNCHANGED <<source, pc, allTokens, tokens, current, statements, diagnostics,
                 program, analysis>>

DidOpen ==
  /\ pc = "serving"
  /\ \E uri \in Uris, text \in ServerTexts :
       /\ ~documents[uri].present
       /\ ContentChanged(uri, [present |-> TRUE, version |-> 1, text |-> text])

DidChange ==
  /\ pc = "serving"
  /\ \E uri \in Uris, text \in ServerTexts :
       /\ documents[uri].present
       /\ documents[uri].version < MaxVersion
       /\ ContentChanged(uri, [present |-> TRUE,
                               version |-> documents[uri].version + 1,
                               text |-> text])

\* the document manager drops the document; the server has no handler
DidClose ==
  /\ pc = "serving"
  /\ \E uri \in Uris :
       /\ documents[uri].present
       /\ documents' = [documents EXCEPT ![uri] = Absent]
       /\ query' = [kind |-> "didClose", uri |-> uri]
  /\ UNCHANGED <<source, pc, allTokens, tokens, current, statements, diagnostics,
                 program, analysis, answer, parseCache>>

\* a request handler: the cache after getParseResult and the response
Responds(kind, uri, line, character, cache, response) ==
  /\ query' = [kind |-> kind, uri |-> uri, line |-> line, character |-> character]
  /\ answer' = response
  /\ parseCache' = cache
  /\ UNCHANGED <<source, pc, allTokens, tokens, current, statements, diagnostics,
                 program, analysis, documents>>

OnCompletion ==
  /\ pc = "serving"
  /\ \E uri \in Uris, line \in ServerLines, character \in ServerCharacters :
       Responds("completion", uri, line, character,
                getParseResult(parseCache, documents, uri).parseCache,
                completionResponse(getParseResult(parseCache, documents, uri).program,
                                   line, character))

OnHover ==
  /\ pc = "serving"
  /\ \E uri \in Uris, line \in ServerLines, character \in ServerCharacters :
       Responds("hover", uri, line, character,
                getParseResult(parseCache, documents, uri).parseCache,
                hoverResponse(getParseResult(parseCache, documents, uri).program,
                              line, character))

OnDefinition ==
  /\ pc = "serving"
  /\ \E uri \in Uris, line \in ServerLines, character \in ServerCharacters :
       Responds("definition", uri, line, character,
                getParseResult(parseCache, documents, uri).parseCache,
                definitionResponse(uri,
                                   getParseResult(parseCache, documents, uri).program,
                                   line, character))

OnReferences ==
  /\ pc = "serving"
  /\ \E uri \in Uris, line \in ServerLines, character \in ServerCharacters :
       Responds("references", uri, line, character,
                getParseResult(parseCache, documents, uri).parseCache,
                referencesResponse(uri,
                                   getParseResult(parseCache, documents, uri).program,
                                   line, character))

OnDocumentHighlight ==
  /\ pc = "serving"
  /\ \E uri \in Uris, line \in ServerLines, character \in ServerCharacters :
       Responds("highlight", uri, line, character,
                getParseResult(parseCache, documents, uri).parseCache,
                highlightResponse(getParseResult(parseCache, documents, uri).program,
                                  line, character))

NextServer ==
  \/ DidOpen \/ DidChange \/ DidClose
  \/ OnCompletion \/ OnHover \/ OnDefinition \/ OnReferences \/ OnDocumentHighlight

SpecServer == InitServer /\ [][NextServer]_vars

\* the tree of the latest text of a document, none for a closed document
LatestProgram(uri) ==
  IF documents[uri].present THEN parse(documents[uri].text).program ELSE NullNode

\* the response to a request computed from a given tree
ResponseFrom(q, prog) ==
  CASE q.kind = "completion" -> completionResponse(prog, q.line, q.character)
    [] q.kind = "hover" -> hoverResponse(prog, q.line, q.character)
    [] q.kind = "definition" -> definitionResponse(q.uri, prog, q.line, q.character)
    [] q.kind = "references" -> referencesResponse(q.uri, prog, q.line, q.character)
    [] q.kind = "highlight" -> highlightResponse(prog, q.line, q.character)

RequestKinds == {"completion", "hover", "definition", "references", "highlight"}

\* the entry of an open document has its version and the parse of its text;
\* a closed document has no entry
CacheFresh ==
  \A uri \in Uris :
    IF documents[uri].present
    THEN parseCache[uri] = [present |-> TRUE, version |-> documents[uri].version,
                            result |-> parse(documents[uri].text)]
    ELSE parseCache[uri] = Absent

\* a request is answered from the tree of the latest text
AnsweredFromLatest ==
  (query' # query /\ query'.kind \in RequestKinds)
    => answer' = ResponseFrom(query', LatestProgram(query'.uri))

\* C20: the per-document cache is never stale.  After any sequence of open,
\* change and close events and queries the entry of a document has the version
\* and the parse of its latest text, every query is answered from a tree
\* parsed from the latest text, and the entry of a closed document is evicted.
C20_CacheNeverStale == []CacheFresh /\ [][AnsweredFromLatest]_vars

(***************************************************************************)
(* Parenthesized expressions.                                              *)
(***************************************************************************)
\* a node without its range: its type and its children
Shape(node) == [f \in (DOMAIN node) \ {"range"} |-> node[f]]

\* the indices of the `(` tokens of the parser's stream
LParens == {i \in 1..Len(tokens) : tokens[i].type = "LParen"}

\* the `(` at token i has an inner expression and its `)`
Closed(i) ==
  /\ parseExpression(tokens, i).node.type # "Null"
  /\ check(tokens, parseExpression(tokens, i).cur, "RParen")

\* the `(` at token i has an inner expression and no `)` after it
Unclosed(i) ==
  /\ parseExpression(tokens, i).node.type # "Null"
  /\ ~check(tokens, parseExpression(tokens, i).cur, "RParen")

\* what parseParenthesized returned (p) for the inner expression e of a
\* closed pair: e's shape, widened from `(` to the end of `)`
ClosedResult(i, e, p) ==
  /\ Shape(p.node) = Shape(e.node)
  /\ p.node.range = [start |-> tokens[i].range.start,
                     end |-> tokens[e.cur + 1].range.end]
  /\ p.cur = e.cur + 1
  /\ p.diags = e.diags

\* what parseParenthesized returned (p) for the inner expression e of an
\* unclosed `(`: e's shape, started at `(`, and one more diagnostic
UnclosedResult(i, e, p) ==
  /\ Shape(p.node) = Shape(e.node)
  /\ p.node.range = [start |-> tokens[i].range.start, end |-> e.node.range.end]
  /\ p.cur = e.cur
  /\ Len(p.diags) = Len(e.diags) + 1
  /\ SubSeq(p.diags, 1, Len(e.diags)) = e.diags
  /\ p.diags[Len(p.diags)].message = Msg("Expected closing \")\"")
  /\ p.diags[Len(p.diags)].severity = SeverityError

\* C21: parenthesization creates no node.  parseParenthesized returns the
\* inner expression with the same node type and the same children, its range
\* running from `(` to the end of `)`; when the inner expression is present
\* and `)` is missing it reports exactly one 'Expected closing ")"'
\* diagnostic and returns the inner node with its start at `(` and its end
\* left at the inner expression's end.
C21_ParenthesesCreateNoNode ==
  (pc = "parseProgram" /\ current = 0) =>
    \A i \in LParens :
      /\ Closed(i) => ClosedResult(i, parseExpression(tokens, i),
                                   parseParenthesized(tokens, i - 1))
      /\ Unclosed(i) => UnclosedResult(i, parseExpression(tokens, i),
                                       parseParenthesized(tokens, i - 1))

\* `let a := ((f x )`: a closed Application inside an unclosed `(`
C21_Witness ==
  /\ pc = "parseProgram" /\ current = 0
  /\ \E i \in LParens :
       /\ Unclosed(i)
       /\ i + 1 \in LParens
       /\ Closed(i + 1)
       /\ parseParenthesized(tokens, i).node.type = "Application"
       /\ parseParenthesized(tokens, i - 1).node.type = "Application"
       /\ Len(parseParenthesized(tokens, i - 1).diags) = 1

(***************************************************************************)
(* Recovery inside abstractions.                                           *)
(***************************************************************************)
\* the indices of the lambda tokens with no identifier after them
BareLambdas ==
  {i \in 1..Len(tokens) : /\ tokens[i].type = "Lambda"
                          /\ ~check(tokens, i, "Identifier")}

\* what parseAbstraction returned (p) at the bare lambda of token i, b being
\* the expression that parses after it
SalvagedBody(i, b, p) ==
  /\ p.node.type = "Error"
  /\ p.node.message = Msg("Expected parameter after \"\\\"")
  /\ p.node.partial = b.node
  /\ p.node.range.start = tokens[i].range.start
  /\ p.node.range.end = IF b.node.type # "Null" THEN b.node.range.end
                        ELSE tokens[i].range.end
  /\ p.cur = b.cur
  /\ Len(p.diags) = Len(b.diags) + 1
  /\ p.diags[1].message = Msg("Expected parameter after \"\\\"")
  /\ p.diags[1].severity = SeverityError
  /\ p.diags[1].range = currentRange(tokens, i)
  /\ Tail(p.diags) = b.diags

\* the Variables under an expression node
VariablesOf(e) == SelectSeq(SubExprs(e), LAMBDA n : n.type = "Variable")

\* the Error nodes of the program that a bare lambda left, with a payload
SalvagedErrors ==
  SelectSeq(ProgramExprs,
            LAMBDA n : /\ n.type = "Error"
                       /\ n.message = Msg("Expected parameter after \"\\\"")
                       /\ n.partial.type # "Null")

\* analyze recorded a reference for the Variable v
Referenced(v) ==
  \E k \in 1..Len(analysis.references) :
    /\ analysis.references[k].name = v.name
    /\ analysis.references[k].range = v.range

\* at every bare lambda parseAbstraction salvages the expression after it,
\* and analyze records a reference for every Variable of a salvaged body
SalvagedBodiesVisible ==
  /\ (pc = "parseProgram" /\ current = 0) =>
       \A i \in BareLambdas :
         SalvagedBody(i, parseExpression(tokens, i), parseAbstraction(tokens, i - 1))
  /\ pc = "analyzed" =>
       \A k \in 1..Len(SalvagedErrors) :
         \A j \in 1..Len(VariablesOf(SalvagedErrors[k].partial)) :
           Referenced(VariablesOf(SalvagedErrors[k].partial)[j])

\* `let x := \.x `: a declaration whose lambda has its dot and its body but
\* no parameter
MissingParameterExample ==
  <<"l", "e", "t", " ", "x", " ", ":", "=", " ", "\\", ".", "x", " ">>

\* C22: missing lambda parameter.  When the token after a lambda is not an
\* identifier, parseAbstraction reports one diagnostic, parses what follows as
\* a salvaged body and attaches it as the partial payload of the Error node,
\* whose range runs from the lambda to the payload's end; analyze then records
\* a reference for every Variable of the salvaged body, as for the x after
\* the dot of a lambda written without its parameter.
C22_MissingParameter ==
  /\ SalvagedBodiesVisible
  /\ (pc = "analyzed" /\ source = MissingParameterExample) =>
       /\ Len(SalvagedErrors) = 1
       /\ Len(VariablesOf(SalvagedErrors[1].partial)) = 1
       /\ Len(analysis.references) = 1
       /\ analysis.references[1].name = <<"x">>

\* the indices of the lambda tokens with a parameter and no `.` after it
DotlessLambdas ==
  {i \in 1..Len(tokens) : /\ tokens[i].type = "Lambda"
                          /\ check(tokens, i, "Identifier")
                          /\ ~check(tokens, i + 1, "Dot")}

\* parseAbstraction (p) reported the missing dot, once and first, b being the
\* expression that parses after the parameter
DotReported(i, b, p) ==
  /\ p.cur = b.cur
  /\ Len(p.diags) = Len(b.diags) + 1
  /\ p.diags[1].message = Msg("Expected \".\" after parameter")
  /\ p.diags[1].severity = SeverityError
  /\ p.diags[1].range = currentRange(tokens, i + 1)
  /\ Tail(p.diags) = b.diags

\* parseAbstraction (p) completed the abstraction of the lambda of token i
\* with the body b
Completed(i, b, p) ==
  /\ p.node.type = "Abstraction"
  /\ p.node.parameter = tokens[i + 1].value
  /\ p.node.parameterRange = tokens[i + 1].range
  /\ p.node.body = b.node
  /\ p.node.range.start = tokens[i].range.start

\* parseAbstraction (p) gave up the abstraction of the lambda of token i
GivenUp(i, p) ==
  /\ p.node.type = "Error"
  /\ p.node.message = Msg("Expected \".\" after parameter")
  /\ p.node.partial = NullNode
  /\ p.node.range = [start |-> tokens[i].range.start, end |-> tokens[i + 1].range.end]

\* C23 as stated: missing dot.  When a lambda is followed by a parameter and
\* not by `.`, parseAbstraction reports exactly one 'Expected "." after
\* parameter' diagnostic and returns an Abstraction node with that parameter
\* whose body is the expression that parses next, and not an Error node.
C23_MissingDot_AsStated ==
  (pc = "parseProgram" /\ current = 0) =>
    \A i \in DotlessLambdas :
      /\ DotReported(i, parseExpression(tokens, i + 1), parseAbstraction(tokens, i - 1))
      /\ Completed(i, parseExpression(tokens, i + 1), parseAbstraction(tokens, i - 1))

\* C23 amended: missing dot.  parseAbstraction reports exactly one 'Expected
\* "." after parameter' diagnostic; when an expression parses after the
\* parameter it returns an Abstraction node with that parameter and that body,
\* and when none does it returns an Error node from the lambda to the
\* parameter, with no payload.
C23_MissingDot ==
  (pc = "parseProgram" /\ current = 0) =>
    \A i \in DotlessLambdas :
      /\ DotReported(i, parseExpression(tokens, i + 1), parseAbstraction(tokens, i - 1))
      /\ IF parseExpression(tokens, i + 1).node.type # "Null"
         THEN Completed(i, parseExpression(tokens, i + 1),
                        parseAbstraction(tokens, i - 1))
         ELSE GivenUp(i, parseAbstraction(tokens, i - 1))

\* `let a := \x f x `: the abstraction over x is completed with the body f x
C23_Witness ==
  /\ pc = "parseProgram" /\ current = 0
  /\ \E i \in DotlessLambdas :
       /\ parseAbstraction(tokens, i - 1).node.type = "Abstraction"
       /\ parseAbstraction(tokens, i - 1).node.body.type = "Application"
       /\ Len(parseAbstraction(tokens, i - 1).diags) = 1

(***************************************************************************)
(* Lexical errors.                                                         *)
(***************************************************************************)
\* inputs with the three error tokens among declarations, atoms, parentheses
\* and lambdas
ErrWords ==
  { <<"l", "e", "t", " ", "x", " ", ":", "=", " ">>, <<"x", " ">>,
    <<"?">>, <<":">>, <<"-", " ">>, <<"(">>, <<")">>, <<"\\">> }

InitErr ==
  /\ source \in SourcesOver(ErrWords, MaxErrWords)
  /\ InitRest

SpecErr == InitErr /\ [][Next]_vars

\* the error tokens of the parser's stream
ErrorTokens == SelectSeq(tokens, LAMBDA t : t.type = "Error")

\* the range a holds the range b
Covers(a, b) ==
  /\ a.start.offset <= b.start.offset
  /\ b.end.offset <= a.end.offset

\* C24: lexical errors surface once.  Every error token of the tokenizer (an
\* unrecognized character, a `:` with no `=` after it, a lone `-`) is consumed
\* by the statement-level recovery only, wherever it stands: parse reports for
\* it exactly one 'Unexpected token' diagnostic at its range and one Error
\* statement, and no expression node covers it.
C24_LexicalErrorsSurfaceOnce ==
  pc = "parsed" =>
    \A k \in 1..Len(ErrorTokens) :
      /\ Len(SelectSeq(diagnostics,
                       LAMBDA d : /\ d.range = ErrorTokens[k].range
                                  /\ d.message = UnexpectedToken(ErrorTokens[k])
                                  /\ d.severity = SeverityError)) = 1
      /\ Len(SelectSeq(diagnostics,
                       LAMBDA d : /\ d.range = ErrorTokens[k].range
                                  /\ d.message.text = "Unexpected token")) = 1
      /\ Len(SelectSeq(program.statements,
                       LAMBDA s : /\ s.type = "Error"
                                  /\ s.range = ErrorTokens[k].range)) = 1
      /\ \A j \in 1..Len(ProgramExprs) :
           ~Covers(ProgramExprs[j].range, ErrorTokens[k].range)

\* `let x := (x ?)`: an error token between an operand and a `)`
C24_Witness ==
  /\ pc = "parsed"
  /\ \E k \in 1..Len(tokens) :
       /\ k > 2 /\ k < Len(tokens)
       /\ tokens[k].type = "Error"
       /\ tokens[k - 1].type = "Identifier"
       /\ tokens[k - 2].type = "LParen"
       /\ tokens[k + 1].type = "RParen"
  /\ \E j \in 1..Len(ProgramExprs) : ProgramExprs[j].type = "Variable"

(***************************************************************************)
(* Token positions.                                                        *)
(***************************************************************************)
\* the offsets 1..off of the line breaks of the source
BreaksBefore(off) == {i \in 1..off : source[i] = "\n"}

\* the offset of the last line break among the first off characters, 0 when
\* there is none
LastBreak(off) ==
  IF BreaksBefore(off) = {} THEN 0
  ELSE CHOOSE i \in BreaksBefore(off) : \A j \in BreaksBefore(off) : j <= i

\* the location of the position after the first off characters
LocationAt(off) ==
  [line |-> 1 + Cardinality(BreaksBefore(off)),
   column |-> off - LastBreak(off),
   offset |-> off]

\* C25: token positions.  For every token of tokenize, start.offset and
\* end.offset are the numbers of characters before and through the token, line
\* is 1 plus the number of line breaks before the position and column the
\* number of characters since the last line break; so positions never decrease
\* along the sequence, end.offset - start.offset is the length of the lexeme,
\* and only a newline token ends on a later line than it starts.
C25_TokenPositions ==
  (pc = "parseProgram" /\ current = 0) =>
    /\ allTokens[1].range.start.offset = 0
    /\ allTokens[Len(allTokens)].range.end.offset = Len(source)
    /\ \A k \in 1..Len(allTokens) :
         /\ allTokens[k].range.start = LocationAt(allTokens[k].range.start.offset)
         /\ allTokens[k].range.end = LocationAt(allTokens[k].range.end.offset)
         /\ allTokens[k].value = SubSeq(source, allTokens[k].range.start.offset + 1,
                                        allTokens[k].range.end.offset)
         /\ allTokens[k].range.end.offset - allTokens[k].range.start.offset
              = Len(allTokens[k].value)
         /\ LocLE(allTokens[k].range.start, allTokens[k].range.end)
         /\ allTokens[k].range.end.line > allTokens[k].range.start.line
              => allTokens[k].type = "Newline"
         /\ k < Len(allTokens) =>
              /\ allTokens[k + 1].range.start.offset = allTokens[k].range.end.offset
              /\ LocLE(allTokens[k].range.end, allTokens[k + 1].range.start)

\* `x\nlet`: a keyword at column 0 of line 2, after a newline token that
\* starts on line 1 and ends on line 2
C25_Witness ==
  /\ pc = "parseProgram" /\ current = 0
  /\ \E k \in 2..Len(allTokens) :
       /\ allTokens[k].type = "Let"
       /\ allTokens[k].range.start = [line |-> 2, column |-> 0, offset |-> 2]
       /\ allTokens[k].range.end = [line |-> 2, column |-> 3, offset |-> 5]
       /\ allTokens[k - 1].type = "Newline"
       /\ allTokens[k - 1].range.start.line = 1
       /\ allTokens[k - 1].range.end.line = 2

(***************************************************************************)
(* Error nodes and diagnostics.                                            *)
(***************************************************************************)
\* the Error nodes of the program: statements and expressions at any depth
ErrorNodes ==
  SelectSeq(program.statements, LAMBDA s : s.type = "Error")
    \o SelectSeq(ProgramExprs, LAMBDA e : e.type = "Error")

LetTokens == SelectSeq(tokens, LAMBDA t : t.type = "Let")

LetDeclarations == SelectSeq(program.statements, LAMBDA s : s.type = "LetDeclaration")

\* C26: every Error node comes with a diagnostic.  In any result of parse the
\* number of Error nodes of the tree (Error statements and Error expressions,
\* at any depth) is at most the number of diagnostics, so a result with no
\* diagnostic has no Error node and a LetDeclaration for every `let`.
C26_ErrorNodesHaveDiagnostics ==
  pc = "parsed" =>
    /\ Len(ErrorNodes) <= Len(diagnostics)
    /\ diagnostics = <<>> =>
         /\ ErrorNodes = <<>>
         /\ Len(LetDeclarations) = Len(LetTokens)

\* `let a := \\x. ) (`: Error expressions nested in one another and Error
\* statements, with as many diagnostics as Error nodes
C26_Witness ==
  /\ pc = "parsed"
  /\ \E j \in 1..Len(ProgramExprs) :
       /\ ProgramExprs[j].type = "Error"
       /\ ProgramExprs[j].partial.type = "Error"
  /\ \E i \in 1..Len(program.statements) : program.statements[i].type = "Error"
  /\ Len(ErrorNodes) >= 3
  /\ Len(ErrorNodes) = Len(diagnostics)

====
